---- MODULE Spec2Model ----
(***************************************************************************)
(* Model of the in-memory inventory of examples/cap09_progetto_finale.rs   *)
(* (mod inventario): the struct Inventario { reperti: HashMap<u32,Reperto>,*)
(* prossimo_id: u32 } and its methods.  Every method is an operator that   *)
(* computes the method's outcome from the current fields, and an action    *)
(* that applies the outcome and records the call and its return value.     *)
(* The last part models the thread demos of examples/cap08_concorrenza.rs  *)
(* (channels, a mutex), one specification for each demo.                   *)
(***************************************************************************)
EXTENDS Integers, Sequences, FiniteSets, TLC

\* ------------------------------------------------------------------ bounds
\* Successful insertions explored per behaviour.
MaxInserts == 2
\* Successful note appends (over all held artifacts) explored per behaviour.
MaxNotes == 2

\* Width in bits of the identifier type.  The code's type is u32; TLC's
\* integers are 32-bit signed, so the width is scaled down.  Starting from
\* nuovo(), the explored insertions stay below the largest identifier, as any
\* run of fewer than 2^32 - 1 insertions does in the code.
IdBits == 4

\* -------------------------------------------------------- program constants
\* Largest value of prossimo_id (u32::MAX at the code's width).
IdMax == 2^IdBits - 1

\* ------------------------------------------------------------------- values
\* Option<T>: None is the empty sequence, Some(v) the one-element sequence.
None == <<>>
Some(v) == <<v>>

\* Result<T, ErroreInventario>
Ok(v) == [ok |-> TRUE, val |-> v]
Err(e) == [ok |-> FALSE, err |-> e]

\* ErroreInventario variants built by the store's methods.
RepertoNonTrovato(id) == [tag |-> "RepertoNonTrovato", id |-> id]
NomeVuoto == [tag |-> "NomeVuoto"]

\* The unit value () returned by aggiungi_nota.
Unit == "()"

\* What a caller gets when the method panics instead of returning.
Panic == [ok |-> FALSE, err |-> [tag |-> "panic"]]

\* Characters for which char::is_whitespace holds, among those the names use.
WhiteSpace == {" ", "\t"}

\* Misurazioni::nuove(), con_dimensioni and con_peso.
nuove == [lunghezza_cm |-> None, larghezza_cm |-> None, altezza_cm |-> None, peso_grammi |-> None]
con_dimensioni(m, l, w, h) == [m EXCEPT !.lunghezza_cm = Some(l), !.larghezza_cm = Some(w), !.altezza_cm = Some(h)]
con_peso(m, p) == [m EXCEPT !.peso_grammi = Some(p)]

\* Reperto values handed to aggiungi by callers.  Strings whose characters the
\* store inspects (nome, sito) are sequences of characters.  The id field is
\* whatever the caller wrote into the struct (main writes 0).
RepertoA == [id |-> 0, nome |-> <<"A", "x", "e">>, descrizione |-> "ascia",
             materiale |-> [tag |-> "Bronzo"], periodo |-> "BronzoFinale",
             conservazione |-> "Buono", sito |-> <<"S", "a", "v">>,
             coordinate |-> Some(<<41, 15>>),
             misurazioni |-> con_peso(con_dimensioni(nuove, 18, 4, 2), 350),
             note |-> <<"Patina verde uniforme">>]
RepertoB == [id |-> 2, nome |-> <<"S", "w", "o", "r", "d">>, descrizione |-> "spada",
             materiale |-> [tag |-> "Ferro"], periodo |-> "PrimaEtaFerro",
             conservazione |-> "Discreto", sito |-> <<"P", "o", "n">>,
             coordinate |-> None,
             misurazioni |-> nuove,
             note |-> <<>>]
RepertoC == [id |-> 0, nome |-> <<"a", "x", "e", "-", "h", "e", "a", "d">>, descrizione |-> "testa",
             materiale |-> [tag |-> "Altro", label |-> "x"], periodo |-> "Sconosciuto",
             conservazione |-> "Frammentario", sito |-> <<"s", "a", "v">>,
             coordinate |-> None,
             misurazioni |-> con_peso(nuove, 50),
             note |-> <<>>]
RepertoVuoto == [RepertoA EXCEPT !.nome = <<>>]
RepertoSpazi == [RepertoB EXCEPT !.nome = <<" ", "\t">>]
Samples == {RepertoA, RepertoB, RepertoC, RepertoVuoto, RepertoSpazi}

\* Queries handed to cerca_per_nome and cerca_per_sito (as in main: "ascia",
\* "pontecagnano"), and the values handed to cerca_per_materiale and
\* cerca_per_periodo.
NameQueries == {<<>>, <<"a", "x", "e">>, <<"A", "X">>, <<"w", "o", "r", "d">>, <<"z">>}
SiteQueries == {<<"s", "a", "v">>, <<"P", "O", "N">>, <<"v", "a">>}
MaterialQueries == {[tag |-> "Bronzo"], [tag |-> "Altro", label |-> "x"], [tag |-> "Altro", label |-> "y"], [tag |-> "Oro"]}
PeriodQueries == {"BronzoFinale", "Sconosciuto", "BronzoMedio"}

\* Longest slice handed to genera_report on its own.
MaxSlice == 3

\* Reperto values a slice handed to genera_report refers to: RepertoA, B and C
\* as stored, and one more with another Altro label and no weight.
ReportInputs ==
    {[RepertoA EXCEPT !.id = 1], [RepertoB EXCEPT !.id = 2], [RepertoC EXCEPT !.id = 3],
     [RepertoC EXCEPT !.id = 4, !.materiale = [tag |-> "Altro", label |-> "y"],
                      !.conservazione = "Integro", !.sito = <<"S", "a", "v">>,
                      !.misurazioni = nuove]}
Slices == UNION {[1..n -> ReportInputs] : n \in 0..MaxSlice}

\* Note texts handed to aggiungi_nota.
NoteTexts == {"n1", "n2"}

\* Identifiers handed to the lookups, rimuovi and aggiungi_nota: 0, the ones
\* the explored insertions assign, and one that is never assigned.
Ids == 0..(MaxInserts + 1)

VARIABLES
    reperti,      \* Inventario.reperti: the map u32 -> Reperto, a function on its keys
    prossimo_id,  \* Inventario.prossimo_id
    panicked,     \* the thread unwound out of a method (arithmetic overflow check)
    last,         \* the last call: [op, arg, res, ctx]
    issued,       \* history: the identifiers returned by successful aggiungi calls, in order
    removed,      \* history: the identifiers of successful rimuovi calls
    inserted,     \* history: for each held id, the Reperto the caller passed to aggiungi
    appended,     \* history: for each held id, the texts of its successful aggiungi_nota calls
    ordine,       \* the order in which reperti.values() visits the keys, fixed between changes of the map
    encoder,      \* what serde_json::to_string_pretty returns for the store's data: "ok" or "err"
    pc,           \* cap08: the place each thread of a demo has reached
    guarded,      \* cap08: the Mutex of a demo, [owner, data]
    chan,         \* cap08: the channels of a demo, each [queue, senders, receiver]
    loc,          \* cap08: the local variables of each thread of a demo
    printed       \* cap08: what the threads of a demo have printed, in order

\* last.op leads: two calls are told apart by their names before their
\* arguments and results, which differ in type from one method to another.
vars == <<last.op, reperti, prossimo_id, panicked, last, issued, removed, inserted, appended,
          ordine, encoder, pc, guarded, chan, loc, printed>>

\* ------------------------------------------------------------ HashMap<K, V>
EmptyMap == [k \in {} |-> None]
contains_key(m, k) == k \in DOMAIN m
\* HashMap::insert: adds the entry, or replaces the value of a key already held.
insert(m, k, v) == [x \in (DOMAIN m) \cup {k} |-> IF x = k THEN v ELSE m[x]]
\* HashMap::remove, the map left behind.
remove(m, k) == [x \in (DOMAIN m) \ {k} |-> m[x]]
\* HashMap::len
len(m) == Cardinality(DOMAIN m)
\* HashMap::values visits the entries in an arbitrary order: every order of the keys.
values(m) == {o \in [1..Cardinality(DOMAIN m) -> DOMAIN m] : \A i, j \in DOMAIN o : i # j => o[i] # o[j]}

\* ------------------------------------------------------------------- str
RECURSIVE trim_start(_)
trim_start(s) == IF Len(s) > 0 /\ Head(s) \in WhiteSpace THEN trim_start(Tail(s)) ELSE s
RECURSIVE trim_end(_)
trim_end(s) == IF Len(s) > 0 /\ s[Len(s)] \in WhiteSpace THEN trim_end(SubSeq(s, 1, Len(s) - 1)) ELSE s
trim(s) == trim_end(trim_start(s))
is_empty(s) == Len(s) = 0

\* str::to_lowercase on the characters the names, sites and queries use: an
\* upper-case letter maps to its lower-case letter, any other character to itself.
lower_char(c) ==
    CASE c = "A" -> "a" [] c = "E" -> "e" [] c = "N" -> "n" [] c = "O" -> "o"
      [] c = "P" -> "p" [] c = "S" -> "s" [] c = "V" -> "v" [] c = "X" -> "x"
      [] OTHER -> c
to_lowercase(s) == [i \in DOMAIN s |-> lower_char(s[i])]
\* str::contains with a &str pattern: the pattern occurs at some offset of the
\* haystack; the empty pattern occurs at offset 0 of every haystack.
contains(h, n) == \E i \in 0..(Len(h) - Len(n)) : SubSeq(h, i + 1, i + Len(n)) = n

\* Iterator::filter(..).collect() over the entries visited in `order`.
RECURSIVE filter_collect(_, _)
filter_collect(v, keep) ==
    IF Len(v) = 0 THEN <<>>
    ELSE (IF Head(v) \in keep THEN <<Head(v)>> ELSE <<>>) \o filter_collect(Tail(v), keep)

\* ------------------------------------------------------------- Vec sorting
\* slice::sort_by_key with key |r| r.id: a stable sort, here by insertion.
RECURSIVE insert_by_key(_, _)
insert_by_key(sorted, r) ==
    IF Len(sorted) = 0 THEN <<r>>
    ELSE IF r.id < Head(sorted).id THEN <<r>> \o sorted
    ELSE <<Head(sorted)>> \o insert_by_key(Tail(sorted), r)
RECURSIVE sort_by_key(_)
sort_by_key(v) ==
    IF Len(v) = 0 THEN <<>>
    ELSE insert_by_key(sort_by_key(SubSeq(v, 1, Len(v) - 1)), v[Len(v)])

\* --------------------------------------------------------------- Inventario
\* Variant of add_assign_one: the counter advances by two.
add_assign_two(n) ==
    IF n + 1 < IdMax THEN {[val |-> n + 2, panic |-> FALSE]}
    ELSE {[val |-> n, panic |-> TRUE], [val |-> (n + 2) % (IdMax + 1), panic |-> FALSE]}

\* prossimo_id += 1 on a u32: below the maximum it adds one; at the maximum the
\* build decides: with overflow checks the thread panics and the field keeps
\* its value, without them the value wraps to 0.
add_assign_one(n) ==
    IF n < IdMax THEN {[val |-> n + 1, panic |-> FALSE]}
    ELSE {[val |-> n, panic |-> TRUE], [val |-> 0, panic |-> FALSE]}

\* Variant of aggiungi: the identifier is derived from the number of entries
\* held (len + 1) instead of the counter.
aggiungi_len_id(reperto) ==
    IF is_empty(trim(reperto.nome))
    THEN {[reperti |-> reperti, prossimo_id |-> prossimo_id, panicked |-> FALSE, res |-> Err(NomeVuoto)]}
    ELSE LET id == len(reperti) + 1
             stored == [reperto EXCEPT !.id = id]
         IN {[reperti |-> insert(reperti, id, stored), prossimo_id |-> n.val,
              panicked |-> n.panic, res |-> Ok(id)] : n \in add_assign_one(prossimo_id)}

\* Variant of aggiungi: the statement prossimo_id += 1 is missing.
aggiungi_no_increment(reperto) ==
    IF is_empty(trim(reperto.nome))
    THEN {[reperti |-> reperti, prossimo_id |-> prossimo_id, panicked |-> FALSE, res |-> Err(NomeVuoto)]}
    ELSE LET id == prossimo_id
             stored == [reperto EXCEPT !.id = id]
         IN {[reperti |-> insert(reperti, id, stored), prossimo_id |-> prossimo_id,
              panicked |-> FALSE, res |-> Ok(id)]}

\* Variant of aggiungi: the identifier is taken from the counter before the
\* name is validated, so a rejected record consumes one.
aggiungi_id_first(reperto) ==
    IF is_empty(trim(reperto.nome))
    THEN {[reperti |-> reperti, prossimo_id |-> n.val, panicked |-> n.panic, res |-> Err(NomeVuoto)]
             : n \in add_assign_one(prossimo_id)}
    ELSE LET id == prossimo_id
             stored == [reperto EXCEPT !.id = id]
         IN {[reperti |-> insert(reperti, id, stored), prossimo_id |-> n.val,
              panicked |-> n.panic, res |-> Ok(id)] : n \in add_assign_one(prossimo_id)}

\* Variant of aggiungi: the statement reperto.id = id is missing.
aggiungi_keeps_caller_id(reperto) ==
    IF is_empty(trim(reperto.nome))
    THEN {[reperti |-> reperti, prossimo_id |-> prossimo_id, panicked |-> FALSE, res |-> Err(NomeVuoto)]}
    ELSE LET id == prossimo_id
         IN {[reperti |-> insert(reperti, id, reperto), prossimo_id |-> n.val,
              panicked |-> n.panic, res |-> Ok(id)] : n \in add_assign_one(prossimo_id)}

\* Inventario::aggiungi: the outcomes [reperti, prossimo_id, panicked, res].
aggiungi(reperto) ==
    IF is_empty(trim(reperto.nome))
    THEN {[reperti |-> reperti, prossimo_id |-> prossimo_id, panicked |-> FALSE, res |-> Err(NomeVuoto)]}
    ELSE LET id == prossimo_id
             stored == [reperto EXCEPT !.id = id]
         IN {[reperti |-> insert(reperti, id, stored), prossimo_id |-> n.val,
              panicked |-> n.panic, res |-> Ok(id)] : n \in add_assign_one(prossimo_id)}

\* Variant of cerca_per_id: the error does not carry the requested identifier.
cerca_per_id_err_zero(id) ==
    IF contains_key(reperti, id) THEN Ok(reperti[id]) ELSE Err(RepertoNonTrovato(0))

\* Inventario::cerca_per_id
cerca_per_id(id) ==
    IF contains_key(reperti, id) THEN Ok(reperti[id]) ELSE Err(RepertoNonTrovato(id))

\* Variant of rimuovi: the entry is read (get + clone) but not taken out.
rimuovi_keeps_entry(id) ==
    IF contains_key(reperti, id)
    THEN [reperti |-> reperti, res |-> Ok(reperti[id])]
    ELSE [reperti |-> reperti, res |-> Err(RepertoNonTrovato(id))]

\* Inventario::rimuovi: the outcome [reperti, res].
rimuovi(id) ==
    IF contains_key(reperti, id)
    THEN [reperti |-> remove(reperti, id), res |-> Ok(reperti[id])]
    ELSE [reperti |-> reperti, res |-> Err(RepertoNonTrovato(id))]

\* Variant of aggiungi_nota: the note goes to the front of the list.
aggiungi_nota_front(id, nota) ==
    IF contains_key(reperti, id)
    THEN [reperti |-> [reperti EXCEPT ![id].note = <<nota>> \o @], res |-> Ok(Unit)]
    ELSE [reperti |-> reperti, res |-> Err(RepertoNonTrovato(id))]

\* Variant of aggiungi_nota: an absent identifier is skipped without an error.
aggiungi_nota_silent(id, nota) ==
    IF contains_key(reperti, id)
    THEN [reperti |-> [reperti EXCEPT ![id].note = Append(@, nota)], res |-> Ok(Unit)]
    ELSE [reperti |-> reperti, res |-> Ok(Unit)]

\* Inventario::aggiungi_nota: the outcome [reperti, res].
aggiungi_nota(id, nota) ==
    IF contains_key(reperti, id)
    THEN [reperti |-> [reperti EXCEPT ![id].note = Append(@, nota)], res |-> Ok(Unit)]
    ELSE [reperti |-> reperti, res |-> Err(RepertoNonTrovato(id))]

\* Variant of tutti: the call of sort_by_key is missing.
tutti_unsorted(order) == [i \in DOMAIN order |-> reperti[order[i]]]

\* Inventario::tutti, with `order` the order in which values() visits the map.
tutti(order) == sort_by_key([i \in DOMAIN order |-> reperti[order[i]]])

\* The Vec a method collects from reperti.values() when the map visits its
\* keys in `order`, keeping the entries for which the closure returns true.
visit(order) == [i \in DOMAIN order |-> reperti[order[i]]]

\* Variant of cerca_per_nome: the query is compared as given, not lower-cased.
cerca_per_nome_query_as_given(query, order) ==
    filter_collect(visit(order), {r \in {reperti[k] : k \in DOMAIN reperti} :
        contains(to_lowercase(r.nome), query)})

\* Variant of cerca_per_nome: the name is compared as stored, not lower-cased.
cerca_per_nome_name_as_stored(query, order) ==
    LET query_lower == to_lowercase(query) IN
    filter_collect(visit(order), {r \in {reperti[k] : k \in DOMAIN reperti} :
        contains(r.nome, query_lower)})

\* Variant of cerca_per_nome: an empty query returns no artifact.
cerca_per_nome_empty_none(query, order) ==
    LET query_lower == to_lowercase(query) IN
    filter_collect(visit(order), {r \in {reperti[k] : k \in DOMAIN reperti} :
        Len(query_lower) > 0 /\ contains(to_lowercase(r.nome), query_lower)})

\* Inventario::cerca_per_nome
cerca_per_nome(query, order) ==
    LET query_lower == to_lowercase(query) IN
    filter_collect(visit(order), {r \in {reperti[k] : k \in DOMAIN reperti} :
        contains(to_lowercase(r.nome), query_lower)})

\* Variant of cerca_per_materiale: only the variant is compared, not the
\* label an Altro carries.
cerca_per_materiale_tag_only(materiale, order) ==
    filter_collect(visit(order), {r \in {reperti[k] : k \in DOMAIN reperti} :
        r.materiale.tag = materiale.tag})

\* Inventario::cerca_per_materiale; the derived PartialEq of Materiale compares
\* the variant and, for Altro, the label.
cerca_per_materiale(materiale, order) ==
    filter_collect(visit(order), {r \in {reperti[k] : k \in DOMAIN reperti} :
        r.materiale = materiale})

\* Inventario::cerca_per_periodo
cerca_per_periodo(periodo, order) ==
    filter_collect(visit(order), {r \in {reperti[k] : k \in DOMAIN reperti} :
        r.periodo = periodo})

\* Inventario::cerca_per_sito
cerca_per_sito(sito, order) ==
    LET sito_lower == to_lowercase(sito) IN
    filter_collect(visit(order), {r \in {reperti[k] : k \in DOMAIN reperti} :
        contains(to_lowercase(r.sito), sito_lower)})

\* Variant of totale: the number of identifiers handed out so far.
totale_issued == prossimo_id - 1

\* Inventario::totale
totale == len(reperti)

\* ------------------------------------------------------- serde / serde_json
\* The JSON text an encoder writes is kept as the JSON value it spells: null,
\* a number, a string, an array (a sequence of values) or an object (a
\* sequence of <<key, value>> pairs in the order written).  Indentation and
\* string escapes are not modelled.
json_null == [t |-> "null"]
json_num(n) == [t |-> "num", v |-> n]
json_str(x) == [t |-> "str", v |-> x]
json_arr(items) == [t |-> "arr", v |-> items]
json_obj(pairs) == [t |-> "obj", v |-> pairs]

\* Serialize for Option<f64>: None is written as null, Some(x) as the number.
ser_option_f64(o) == IF o = None THEN json_null ELSE json_num(o[1])

\* #[derive(Serialize)] for Materiale: a unit variant is written as its name,
\* Altro(s) as the object {"Altro": s}.
ser_materiale(m) ==
    IF m.tag = "Altro" THEN json_obj(<< <<"Altro", json_str(m.label)>> >>) ELSE json_str(m.tag)

\* #[derive(Serialize)] for Periodo and Conservazione: the variant's name.
ser_periodo(p) == json_str(p)
ser_conservazione(c) == json_str(c)

\* #[derive(Serialize)] for Coordinate, under Option.
ser_option_coordinate(o) ==
    IF o = None THEN json_null
    ELSE json_obj(<< <<"latitudine", json_num(o[1][1])>>, <<"longitudine", json_num(o[1][2])>> >>)

\* #[derive(Serialize)] for Misurazioni
ser_misurazioni(m) ==
    json_obj(<< <<"lunghezza_cm", ser_option_f64(m.lunghezza_cm)>>,
                <<"larghezza_cm", ser_option_f64(m.larghezza_cm)>>,
                <<"altezza_cm", ser_option_f64(m.altezza_cm)>>,
                <<"peso_grammi", ser_option_f64(m.peso_grammi)>> >>)

\* Serialize for Vec<String>
ser_vec_string(v) == json_arr([i \in DOMAIN v |-> json_str(v[i])])

\* Variant of ser_reperto: the note list is written empty.
ser_reperto_no_notes(r) ==
    json_obj(<< <<"id", json_num(r.id)>>,
                <<"nome", json_str(r.nome)>>,
                <<"descrizione", json_str(r.descrizione)>>,
                <<"materiale", ser_materiale(r.materiale)>>,
                <<"periodo", ser_periodo(r.periodo)>>,
                <<"conservazione", ser_conservazione(r.conservazione)>>,
                <<"sito", json_str(r.sito)>>,
                <<"coordinate", ser_option_coordinate(r.coordinate)>>,
                <<"misurazioni", ser_misurazioni(r.misurazioni)>>,
                <<"note", json_arr(<<>>)>> >>)

\* #[derive(Serialize)] for Reperto: an object with the fields in the order
\* the struct declares them.
ser_reperto(r) ==
    json_obj(<< <<"id", json_num(r.id)>>,
                <<"nome", json_str(r.nome)>>,
                <<"descrizione", json_str(r.descrizione)>>,
                <<"materiale", ser_materiale(r.materiale)>>,
                <<"periodo", ser_periodo(r.periodo)>>,
                <<"conservazione", ser_conservazione(r.conservazione)>>,
                <<"sito", json_str(r.sito)>>,
                <<"coordinate", ser_option_coordinate(r.coordinate)>>,
                <<"misurazioni", ser_misurazioni(r.misurazioni)>>,
                <<"note", ser_vec_string(r.note)>> >>)

\* The error value of serde_json (serde_json::Error), and its to_string().
SerdeJsonError == [tag |-> "serde_json::Error", msg |-> "encoder error"]

\* From<serde_json::Error> for ErroreInventario
SerializzazioneErrore(msg) == [tag |-> "SerializzazioneErrore", msg |-> msg]
from_serde_json_error(e) == SerializzazioneErrore(e.msg)

\* serde_json::to_string_pretty(&Vec<&Reperto>): the library's code is not
\* part of the repository; by its signature it returns the text or an error,
\* and `encoder` says which it returns for the data the store holds.
to_string_pretty(v) ==
    IF encoder = "ok" THEN Ok(json_arr([i \in DOMAIN v |-> ser_reperto(v[i])]))
    ELSE Err(SerdeJsonError)

\* Variant of to_json: the artifacts are written in the order the map visits
\* them.
to_json_values_order(order) == to_string_pretty(visit(order))

\* Inventario::to_json
to_json(order) == to_string_pretty(tutti(order))

\* ------------------------------------------------------------ statistiche
\* An f64 is kept as the exact fraction <<numerator, denominator>> in lowest
\* terms with a positive denominator; the measurements in the records are
\* whole numbers.  Rounding to 53 bits is not modelled.
RECURSIVE gcd(_, _)
gcd(a, b) == IF b = 0 THEN a ELSE gcd(b, a % b)
f64_frac(n, d) == LET g == gcd(n, d) IN IF g = 0 THEN <<0, 1>> ELSE <<n \div g, d \div g>>
\* `n as f64`, and the literals 0.0 and 350.0
f64_of(n) == <<n, 1>>
\* f64 + f64 and f64 / f64 (divisor not zero)
f64_add(a, b) == f64_frac(a[1] * b[2] + b[1] * a[2], a[2] * b[2])
f64_div(a, b) == f64_frac(a[1] * b[2], a[2] * b[1])

\* Variant of punteggio: the scale is upside down.
punteggio_reversed(c) ==
    CASE c = "Integro" -> 1 [] c = "Buono" -> 2 [] c = "Discreto" -> 3
      [] c = "Frammentario" -> 4 [] c = "Pessimo" -> 5

\* Conservazione::punteggio
punteggio(c) ==
    CASE c = "Integro" -> 5 [] c = "Buono" -> 4 [] c = "Discreto" -> 3
      [] c = "Frammentario" -> 2 [] c = "Pessimo" -> 1

\* Display for Materiale: the variant's name, and "Altro: " followed by the
\* label for Altro.  A formatted String is the sequence of its pieces.
fmt_materiale(m) == IF m.tag = "Altro" THEN <<"Altro: ", m.label>> ELSE <<m.tag>>

\* Display for Periodo
fmt_periodo(p) ==
    CASE p = "BronzoAntico" -> "Bronzo Antico (2300-1700 a.C.)"
      [] p = "BronzoMedio" -> "Bronzo Medio (1700-1350 a.C.)"
      [] p = "BronzoRecente" -> "Bronzo Recente (1350-1200 a.C.)"
      [] p = "BronzoFinale" -> "Bronzo Finale (1200-950 a.C.)"
      [] p = "PrimaEtaFerro" -> "Prima Eta del Ferro (950-750 a.C.)"
      [] p = "Sconosciuto" -> "Periodo sconosciuto"

\* Display for Conservazione: the variant's name.
fmt_conservazione(c) == c

\* Variant of entry_add_one: a new key starts at 1 before the increment.
entry_add_one_from_one(m, key) ==
    IF contains_key(m, key) THEN [m EXCEPT ![key] = @ + 1] ELSE insert(m, key, 2)

\* *map.entry(key).or_insert(0) += 1
entry_add_one(m, key) ==
    IF contains_key(m, key) THEN [m EXCEPT ![key] = @ + 1] ELSE insert(m, key, 1)

\* The locals of genera_report before its loop.
report_start ==
    [per_materiale |-> EmptyMap, per_periodo |-> EmptyMap, per_sito |-> EmptyMap,
     per_conservazione |-> EmptyMap, peso_totale |-> f64_of(0), count_peso |-> 0,
     somma_conservazione |-> 0]

\* Variant of report_step: count_peso counts every artifact, with or without
\* a weight.
report_step_counts_all(acc, reperto) ==
    LET peso == reperto.misurazioni.peso_grammi IN
    [per_materiale |-> entry_add_one(acc.per_materiale, fmt_materiale(reperto.materiale)),
     per_periodo |-> entry_add_one(acc.per_periodo, fmt_periodo(reperto.periodo)),
     per_sito |-> entry_add_one(acc.per_sito, reperto.sito),
     per_conservazione |-> entry_add_one(acc.per_conservazione, fmt_conservazione(reperto.conservazione)),
     peso_totale |-> IF peso # None THEN f64_add(acc.peso_totale, f64_of(peso[1])) ELSE acc.peso_totale,
     count_peso |-> acc.count_peso + 1,
     somma_conservazione |-> acc.somma_conservazione + punteggio(reperto.conservazione)]

\* One pass of the loop of genera_report over `reperto`.
report_step(acc, reperto) ==
    LET peso == reperto.misurazioni.peso_grammi IN
    [per_materiale |-> entry_add_one(acc.per_materiale, fmt_materiale(reperto.materiale)),
     per_periodo |-> entry_add_one(acc.per_periodo, fmt_periodo(reperto.periodo)),
     per_sito |-> entry_add_one(acc.per_sito, reperto.sito),
     per_conservazione |-> entry_add_one(acc.per_conservazione, fmt_conservazione(reperto.conservazione)),
     peso_totale |-> IF peso # None THEN f64_add(acc.peso_totale, f64_of(peso[1])) ELSE acc.peso_totale,
     count_peso |-> IF peso # None THEN acc.count_peso + 1 ELSE acc.count_peso,
     somma_conservazione |-> acc.somma_conservazione + punteggio(reperto.conservazione)]

\* The loop of genera_report: the locals after visiting the slice in order.
RECURSIVE report_loop(_, _)
report_loop(acc, slice) ==
    IF Len(slice) = 0 THEN acc ELSE report_loop(report_step(acc, Head(slice)), Tail(slice))

\* statistiche::genera_report
genera_report(slice) ==
    LET acc == report_loop(report_start, slice)
        peso_medio == IF acc.count_peso > 0
                      THEN Some(f64_div(acc.peso_totale, f64_of(acc.count_peso)))
                      ELSE None
        punteggio_conservazione_medio ==
                      IF Len(slice) # 0
                      THEN f64_div(f64_of(acc.somma_conservazione), f64_of(Len(slice)))
                      ELSE f64_of(0)
    IN [totale_reperti |-> Len(slice),
        per_materiale |-> acc.per_materiale,
        per_periodo |-> acc.per_periodo,
        per_sito |-> acc.per_sito,
        per_conservazione |-> acc.per_conservazione,
        peso_medio |-> peso_medio,
        peso_totale |-> acc.peso_totale,
        punteggio_conservazione_medio |-> punteggio_conservazione_medio]

\* ------------------------------------------------------------------ actions
Call(op, arg, res, ctx) == [op |-> op, arg |-> arg, res |-> res, ctx |-> ctx]

\* Number of successful aggiungi_nota calls on the artifacts held.
RECURSIVE SumLen(_, _)
SumLen(f, S) == IF S = {} THEN 0 ELSE LET k == CHOOSE x \in S : TRUE IN Len(f[k]) + SumLen(f, S \ {k})
TotalAppended == SumLen(appended, DOMAIN appended)

\* No demo of cap08 is running: the store is a program of its own.
NoThreads == pc = <<>> /\ guarded = <<>> /\ chan = <<>> /\ loc = <<>> /\ printed = <<>>

\* Inventario::nuovo()
Init ==
    /\ reperti = EmptyMap
    /\ prossimo_id = 1
    /\ panicked = FALSE
    /\ last = Call("nuovo", None, Ok(Unit), None)
    /\ issued = <<>>
    /\ removed = {}
    /\ inserted = EmptyMap
    /\ appended = EmptyMap
    /\ ordine = <<>>
    /\ encoder = "ok"
    /\ NoThreads

\* A step that leaves the map's iteration order and the encoder's outcome as
\* they are.  Spec, SpecRicerca and SpecEsempio draw the order afresh at each
\* call and never encode, so every step of theirs is such a step.
Fermo == UNCHANGED <<ordine, encoder, pc, guarded, chan, loc, printed>>

\* A step that may change the map: when the keys change, the map may visit
\* them in any order from now on.  The encoder keeps accepting the data.
Riordina ==
    /\ ordine' \in (IF DOMAIN reperti' = DOMAIN reperti THEN {ordine} ELSE values(reperti'))
    /\ UNCHANGED <<encoder, pc, guarded, chan, loc, printed>>

\* The same, and when the data change the encoder's outcome for them is open
\* again.
Outcomes == {"ok", "err"}
Muta ==
    /\ ordine' \in (IF DOMAIN reperti' = DOMAIN reperti THEN {ordine} ELSE values(reperti'))
    /\ encoder' \in (IF reperti' = reperti THEN {encoder} ELSE Outcomes)
    /\ UNCHANGED <<pc, guarded, chan, loc, printed>>

Aggiungi(r) ==
    /\ ~panicked
    /\ \E out \in aggiungi(r) :
        /\ out.res.ok => Len(issued) < MaxInserts
        /\ reperti' = out.reperti
        /\ prossimo_id' = out.prossimo_id
        /\ panicked' = out.panicked
        /\ last' = Call("aggiungi", r, IF out.panicked THEN Panic ELSE out.res, None)
        /\ issued' = IF out.res.ok /\ ~out.panicked THEN Append(issued, out.res.val) ELSE issued
        /\ inserted' = IF out.res.ok THEN insert(inserted, out.res.val, r) ELSE inserted
        /\ appended' = IF out.res.ok THEN insert(appended, out.res.val, <<>>) ELSE appended
        /\ UNCHANGED removed

CercaPerId(id) ==
    /\ ~panicked
    /\ last' = Call("cerca_per_id", id, cerca_per_id(id),
                    IF last.op = "aggiungi" /\ last.res.ok /\ last.res.val = id
                    THEN Some(last.arg) ELSE None)
    /\ UNCHANGED <<reperti, prossimo_id, panicked, issued, removed, inserted, appended>>

Rimuovi(id) ==
    /\ ~panicked
    /\ LET out == rimuovi(id) IN
        /\ reperti' = out.reperti
        /\ last' = Call("rimuovi", id, out.res, None)
        /\ removed' = IF out.res.ok THEN removed \cup {id} ELSE removed
        /\ inserted' = IF out.res.ok THEN remove(inserted, id) ELSE inserted
        /\ appended' = IF out.res.ok THEN remove(appended, id) ELSE appended
    /\ UNCHANGED <<prossimo_id, panicked, issued>>

AggiungiNota(id, nota) ==
    /\ ~panicked
    /\ TotalAppended < MaxNotes
    /\ LET out == aggiungi_nota(id, nota) IN
        /\ reperti' = out.reperti
        /\ last' = Call("aggiungi_nota", <<id, nota>>, out.res, None)
        /\ appended' = IF out.res.ok /\ id \in DOMAIN appended
                       THEN [appended EXCEPT ![id] = Append(@, nota)] ELSE appended
    /\ UNCHANGED <<prossimo_id, panicked, issued, removed, inserted>>

\* Variant of Tutti: the map is drained (drain() in place of values()).
Tutti_drains(order) ==
    /\ ~panicked
    /\ last' = Call("tutti", None, tutti(order), order)
    /\ reperti' = EmptyMap
    /\ UNCHANGED <<prossimo_id, panicked, issued, removed, inserted, appended>>

Tutti(order) ==
    /\ ~panicked
    /\ last' = Call("tutti", None, tutti(order), order)
    /\ UNCHANGED <<reperti, prossimo_id, panicked, issued, removed, inserted, appended>>

CercaPerNome(query, order) ==
    /\ ~panicked
    /\ last' = Call("cerca_per_nome", query, cerca_per_nome(query, order), None)
    /\ UNCHANGED <<reperti, prossimo_id, panicked, issued, removed, inserted, appended>>

CercaPerMateriale(materiale, order) ==
    /\ ~panicked
    /\ last' = Call("cerca_per_materiale", materiale, cerca_per_materiale(materiale, order), None)
    /\ UNCHANGED <<reperti, prossimo_id, panicked, issued, removed, inserted, appended>>

CercaPerPeriodo(periodo, order) ==
    /\ ~panicked
    /\ last' = Call("cerca_per_periodo", periodo, cerca_per_periodo(periodo, order), None)
    /\ UNCHANGED <<reperti, prossimo_id, panicked, issued, removed, inserted, appended>>

CercaPerSito(sito, order) ==
    /\ ~panicked
    /\ last' = Call("cerca_per_sito", sito, cerca_per_sito(sito, order), None)
    /\ UNCHANGED <<reperti, prossimo_id, panicked, issued, removed, inserted, appended>>

Totale ==
    /\ ~panicked
    /\ last' = Call("totale", None, totale, None)
    /\ UNCHANGED <<reperti, prossimo_id, panicked, issued, removed, inserted, appended>>

ToJson(order) ==
    /\ ~panicked
    /\ last' = Call("to_json", None, to_json(order), None)
    /\ UNCHANGED <<reperti, prossimo_id, panicked, issued, removed, inserted, appended>>

Next ==
    \/ \E r \in Samples : Aggiungi(r) /\ Fermo
    \/ \E id \in Ids : CercaPerId(id) /\ Fermo
    \/ \E id \in Ids : Rimuovi(id) /\ Fermo
    \/ \E id \in Ids, nota \in NoteTexts : AggiungiNota(id, nota) /\ Fermo
    \/ \E order \in values(reperti) : Tutti(order) /\ Fermo
    \/ Totale /\ Fermo

Spec == Init /\ [][Next]_vars

\* The store populated and emptied by aggiungi and rimuovi and queried by
\* the four searches, each under every order in which the map may iterate.
NextRicerca ==
    \/ \E r \in Samples : Aggiungi(r) /\ Fermo
    \/ \E id \in Ids : Rimuovi(id) /\ Fermo
    \/ \E q \in NameQueries, order \in values(reperti) : CercaPerNome(q, order) /\ Fermo
    \/ \E m \in MaterialQueries, order \in values(reperti) : CercaPerMateriale(m, order) /\ Fermo
    \/ \E p \in PeriodQueries, order \in values(reperti) : CercaPerPeriodo(p, order) /\ Fermo
    \/ \E q \in SiteQueries, order \in values(reperti) : CercaPerSito(q, order) /\ Fermo

SpecRicerca == Init /\ [][NextRicerca]_vars

\* The store filled, annotated, emptied and exported by an encoder that
\* accepts the data, with the map's order kept between the calls that change
\* the keys.  The two artifacts inserted have between them every shape the
\* encoder writes: a unit variant and Altro, values present and absent, notes.
ExportSamples == {RepertoA, RepertoC}
NextExport ==
    \/ \E r \in ExportSamples : Aggiungi(r) /\ Riordina
    \/ \E id \in Ids : Rimuovi(id) /\ Riordina
    \/ \E id \in Ids, nota \in NoteTexts : AggiungiNota(id, nota) /\ Riordina
    \/ ToJson(ordine) /\ Fermo

SpecExport == Init /\ [][NextExport]_vars

\* genera_report on its own: a caller holds a slice of references and calls
\* the function on it.
InitReport ==
    /\ reperti = EmptyMap
    /\ prossimo_id = 1
    /\ panicked = FALSE
    /\ \E slice \in Slices : last = Call("slice", slice, Ok(Unit), None)
    /\ issued = <<>>
    /\ removed = {}
    /\ inserted = EmptyMap
    /\ appended = EmptyMap
    /\ ordine = <<>>
    /\ encoder = "ok"
    /\ NoThreads

GeneraReport ==
    /\ last.op = "slice"
    /\ last' = Call("genera_report", last.arg, genera_report(last.arg), None)
    /\ UNCHANGED <<reperti, prossimo_id, panicked, issued, removed, inserted, appended>>
    /\ Fermo

SpecReport == InitReport /\ [][GeneraReport]_vars

\* The worked example: a new store receives Esempio's three artifacts in
\* order (one named "Axe" weighing 350, one named "Sword" without a weight,
\* one named "axe-head" weighing 50) and is then counted, searched, reported
\* on as main does (tutti, then genera_report) and shrunk by rimuovi.
Esempio == <<RepertoA, RepertoB, RepertoC>>

AggiungiEsempio ==
    /\ ~panicked
    /\ Len(issued) < Len(Esempio)
    /\ LET r == Esempio[Len(issued) + 1] IN
       \E out \in aggiungi(r) :
        /\ reperti' = out.reperti
        /\ prossimo_id' = out.prossimo_id
        /\ panicked' = out.panicked
        /\ last' = Call("aggiungi", r, IF out.panicked THEN Panic ELSE out.res, None)
        /\ issued' = IF out.res.ok /\ ~out.panicked THEN Append(issued, out.res.val) ELSE issued
        /\ inserted' = IF out.res.ok THEN insert(inserted, out.res.val, r) ELSE inserted
        /\ appended' = IF out.res.ok THEN insert(appended, out.res.val, <<>>) ELSE appended
        /\ UNCHANGED removed

Statistiche(order) ==
    /\ ~panicked
    /\ last' = Call("genera_report", tutti(order), genera_report(tutti(order)), None)
    /\ UNCHANGED <<reperti, prossimo_id, panicked, issued, removed, inserted, appended>>

NextEsempio ==
    \/ AggiungiEsempio /\ Fermo
    \/ Totale /\ Fermo
    \/ \E q \in NameQueries, order \in values(reperti) : CercaPerNome(q, order) /\ Fermo
    \/ \E order \in values(reperti) : Statistiche(order) /\ Fermo
    \/ \E id \in Ids : Rimuovi(id) /\ Fermo
    \/ \E id \in Ids : CercaPerId(id) /\ Fermo

SpecEsempio == Init /\ [][NextEsempio]_vars

\* The store near the end of the identifier range: IdMax - 2 artifacts have
\* been inserted, the first is still held and the others have been removed.
\* Insertions go on until two more than the range holds have succeeded.
InitOverflow ==
    /\ reperti = insert(EmptyMap, 1, [RepertoA EXCEPT !.id = 1])
    /\ prossimo_id = IdMax - 1
    /\ panicked = FALSE
    /\ last = Call("rimuovi", IdMax - 2, Ok([RepertoB EXCEPT !.id = IdMax - 2]), None)
    /\ issued = [i \in 1..(IdMax - 2) |-> i]
    /\ removed = 2..(IdMax - 2)
    /\ inserted = insert(EmptyMap, 1, RepertoA)
    /\ appended = insert(EmptyMap, 1, <<>>)
    /\ ordine = <<>>
    /\ encoder = "ok"
    /\ NoThreads

AggiungiOltre(r) ==
    /\ ~panicked
    /\ Len(issued) < IdMax + 2
    /\ \E res \in aggiungi(r) :
        /\ reperti' = res.reperti
        /\ prossimo_id' = res.prossimo_id
        /\ panicked' = res.panicked
        /\ last' = Call("aggiungi", r, IF res.panicked THEN Panic ELSE res.res, None)
        /\ issued' = IF res.res.ok /\ ~res.panicked THEN Append(issued, res.res.val) ELSE issued
        /\ inserted' = IF res.res.ok THEN insert(inserted, res.res.val, r) ELSE inserted
        /\ appended' = IF res.res.ok THEN insert(appended, res.res.val, <<>>) ELSE appended
        /\ UNCHANGED removed

NextOverflow ==
    \/ \E r \in Samples : AggiungiOltre(r) /\ Fermo
    \/ \E id \in Ids : CercaPerId(id) /\ Fermo
    \/ Totale /\ Fermo

SpecOverflow == InitOverflow /\ [][NextOverflow]_vars

\* The store filled and emptied, and read by every method that takes &self
\* and by the report, with the map's order and the encoder's outcome kept
\* between the calls that change the data.
NextLettura ==
    \/ \E r \in Samples : Aggiungi(r) /\ Muta
    \/ \E id \in Ids : Rimuovi(id) /\ Muta
    \/ \E id \in Ids : CercaPerId(id) /\ Fermo
    \/ \E q \in NameQueries : CercaPerNome(q, ordine) /\ Fermo
    \/ \E m \in MaterialQueries : CercaPerMateriale(m, ordine) /\ Fermo
    \/ \E p \in PeriodQueries : CercaPerPeriodo(p, ordine) /\ Fermo
    \/ \E q \in SiteQueries : CercaPerSito(q, ordine) /\ Fermo
    \/ Tutti(ordine) /\ Fermo
    \/ Totale /\ Fermo
    \/ ToJson(ordine) /\ Fermo
    \/ Statistiche(ordine) /\ Fermo

SpecLettura == Init /\ [][NextLettura]_vars

\* Every operation of the store and the report, with the map's order and the
\* encoder's outcome kept between the calls that change the data.
NextOperazioni ==
    \/ \E r \in Samples : Aggiungi(r) /\ Muta
    \/ \E id \in Ids : Rimuovi(id) /\ Muta
    \/ \E id \in Ids, nota \in NoteTexts : AggiungiNota(id, nota) /\ Muta
    \/ \E id \in Ids : CercaPerId(id) /\ Fermo
    \/ \E q \in NameQueries : CercaPerNome(q, ordine) /\ Fermo
    \/ \E m \in MaterialQueries : CercaPerMateriale(m, ordine) /\ Fermo
    \/ \E p \in PeriodQueries : CercaPerPeriodo(p, ordine) /\ Fermo
    \/ \E q \in SiteQueries : CercaPerSito(q, ordine) /\ Fermo
    \/ Tutti(ordine) /\ Fermo
    \/ Totale /\ Fermo
    \/ ToJson(ordine) /\ Fermo
    \/ Statistiche(ordine) /\ Fermo

SpecOperazioni == Init /\ [][NextOperazioni]_vars

\* ================================================= cap08_concorrenza.rs
\* The demos of examples/cap08_concorrenza.rs.  Each is a program of its own:
\* the store's variables keep the values nuovo() gives them, and pc, guarded,
\* chan, loc and printed hold the demo's threads, mutex, channels, locals and
\* output.  A step is one access to shared state (a lock, a send, a receive,
\* a drop) with the thread-local work that precedes it.
StoreIdle ==
    /\ reperti = EmptyMap
    /\ prossimo_id = 1
    /\ panicked = FALSE
    /\ last = Call("nuovo", None, Ok(Unit), None)
    /\ issued = <<>>
    /\ removed = {}
    /\ inserted = EmptyMap
    /\ appended = EmptyMap
    /\ ordine = <<>>
    /\ encoder = "ok"
StoreFermo ==
    UNCHANGED <<reperti, prossimo_id, panicked, last, issued, removed, inserted, appended,
                ordine, encoder>>

\* ------------------------------------------------------ std::sync::mpsc
\* mpsc::channel(): an unbounded queue, one Sender, the Receiver.
channel == [queue |-> <<>>, senders |-> 1, receiver |-> TRUE]
\* Sender::clone and the drop of a Sender or of the Receiver.
clone_sender(c) == [c EXCEPT !.senders = @ + 1]
drop_sender(c) == [c EXCEPT !.senders = @ - 1]
drop_receiver(c) == [c EXCEPT !.receiver = FALSE]
\* Sender::send never blocks; it fails when the Receiver is gone.
send_ok(c) == c.receiver
send(c, m) == [c EXCEPT !.queue = Append(@, m)]
\* Receiver::recv (the iterator of `for m in rx`): it returns the oldest
\* message; with the queue empty it blocks while a Sender lives and fails,
\* ending the loop, when none does.
recv_ready(c) == c.queue # <<>>
recv_closed(c) == c.queue = <<>> /\ c.senders = 0
recv(c) == [c EXCEPT !.queue = Tail(@)]

\* ----------------------------------------------------- std::sync::Mutex
\* Mutex::new(v), lock() (blocks while another thread holds the guard) and
\* the drop of the guard.
\* A guard dropped by a panicking thread poisons the mutex, and lock() then
\* returns Err.
mutex_new(v) == [owner |-> None, data |-> v, poisoned |-> FALSE]

\* Variant of lock_free: lock() never waits.
lock_free_always(m) == TRUE

lock_free(m) == m.owner = None
lock(m, t) == [m EXCEPT !.owner = Some(t)]

\* Variant of unlock: the guard outlives the scope.
unlock_kept(m) == m

unlock(m) == [m EXCEPT !.owner = None]
poison(m) == [m EXCEPT !.owner = None, !.poisoned = TRUE]

\* ------------------------------------------- 8.3b multiple producers
\* Producers spawned by `for sito_id in 1..=3`.
NProduttori == 3
Produttori == 1..NProduttori

\* format!("Reperto dal sito #{}", sito_id)
messaggio(sito_id) == <<"Reperto dal sito #", sito_id>>

InitProduttori ==
    /\ StoreIdle
    /\ pc = [main |-> "spawn", t |-> [i \in Produttori |-> "unspawned"]]
    /\ chan = channel
    /\ loc = [sito_id |-> 1]
    /\ guarded = <<>>
    /\ printed = <<>>

\* One pass of the loop at lines 117-123: clone the sender, spawn the thread.
ProduttoriSpawn ==
    /\ pc.main = "spawn"
    /\ chan' = clone_sender(chan)
    /\ pc' = [main |-> IF loc.sito_id = NProduttori THEN "drop" ELSE "spawn",
              t |-> [pc.t EXCEPT ![loc.sito_id] = "send"]]
    /\ loc' = [sito_id |-> loc.sito_id + 1]
    /\ UNCHANGED <<guarded, printed>>
    /\ StoreFermo

\* Variant of main_drop_tx: the original sender is kept.
main_drop_tx_forgotten(c) == c

\* drop(tx), line 126
main_drop_tx(c) == drop_sender(c)

ProduttoriDrop ==
    /\ pc.main = "drop"
    /\ chan' = main_drop_tx(chan)
    /\ pc' = [pc EXCEPT !.main = "recv"]
    /\ UNCHANGED <<guarded, loc, printed>>
    /\ StoreFermo

\* for msg in rx { println!(..) }: one message received and printed
ProduttoriRecv ==
    /\ pc.main = "recv"
    /\ recv_ready(chan)
    /\ printed' = Append(printed, Head(chan.queue))
    /\ chan' = recv(chan)
    /\ UNCHANGED <<pc, guarded, loc>>
    /\ StoreFermo

\* the loop ends: recv fails, rx is dropped
ProduttoriRecvEnd ==
    /\ pc.main = "recv"
    /\ recv_closed(chan)
    /\ chan' = drop_receiver(chan)
    /\ pc' = [pc EXCEPT !.main = "done"]
    /\ UNCHANGED <<guarded, loc, printed>>
    /\ StoreFermo

\* tx_clone.send(messaggio).unwrap()
ProduttoreSend(i) ==
    /\ pc.t[i] = "send"
    /\ IF send_ok(chan)
       THEN chan' = send(chan, messaggio(i)) /\ pc' = [pc EXCEPT !.t[i] = "end"]
       ELSE chan' = chan /\ pc' = [pc EXCEPT !.t[i] = "panicked"]
    /\ UNCHANGED <<guarded, loc, printed>>
    /\ StoreFermo

\* the closure ends (or unwinds): tx_clone is dropped
ProduttoreEnd(i) ==
    /\ pc.t[i] \in {"end", "panicked"}
    /\ chan' = drop_sender(chan)
    /\ pc' = [pc EXCEPT !.t[i] = "done"]
    /\ UNCHANGED <<guarded, loc, printed>>
    /\ StoreFermo

ProduttoriMain == ProduttoriSpawn \/ ProduttoriDrop \/ ProduttoriRecv \/ ProduttoriRecvEnd
Produttore(i) == ProduttoreSend(i) \/ ProduttoreEnd(i)

NextProduttori ==
    \/ ProduttoriSpawn
    \/ ProduttoriDrop
    \/ ProduttoriRecv
    \/ ProduttoriRecvEnd
    \/ \E i \in Produttori : ProduttoreSend(i)
    \/ \E i \in Produttori : ProduttoreEnd(i)

\* Every thread that can take a step is scheduled in the end.
SpecProduttori ==
    /\ InitProduttori
    /\ [][NextProduttori]_vars
    /\ WF_vars(ProduttoriMain)
    /\ \A i \in Produttori : WF_vars(Produttore(i))

\* ------------------------------------------------------ 8.4 Mutex e Arc
\* Threads spawned by `for i in 0..10`.
NThreads == 10
Threads == 0..(NThreads - 1)

\* loc.i and loc.j are the cursors of main's two loops, loc.num[i] the value
\* thread i has read through its guard, loc.finale the value main prints.
\* printed holds the values the threads print, in the order of the prints.
InitContatore ==
    /\ StoreIdle
    /\ pc = [main |-> "spawn", t |-> [i \in Threads |-> "unspawned"]]
    /\ guarded = mutex_new(0)
    /\ loc = [i |-> 0, j |-> 0, num |-> [i \in Threads |-> 0], finale |-> 0]
    /\ chan = <<>>
    /\ printed = <<>>

\* One pass of the loop at lines 147-157.
ContatoreSpawn ==
    /\ pc.main = "spawn"
    /\ pc' = [main |-> IF loc.i = NThreads - 1 THEN "join" ELSE "spawn",
              t |-> [pc.t EXCEPT ![loc.i] = "lock"]]
    /\ loc' = [loc EXCEPT !.i = @ + 1]
    /\ UNCHANGED <<guarded, chan, printed>>
    /\ StoreFermo

\* handle.join().unwrap(), one handle per pass, in the order of the spawns
ContatoreJoin ==
    /\ pc.main = "join"
    /\ pc.t[loc.j] = "done"
    /\ pc' = [pc EXCEPT !.main = IF loc.j = NThreads - 1 THEN "read" ELSE "join"]
    /\ loc' = [loc EXCEPT !.j = @ + 1]
    /\ UNCHANGED <<guarded, chan, printed>>
    /\ StoreFermo

\* *contatore.lock().unwrap() at line 163: the guard is a temporary
ContatoreRead ==
    /\ pc.main = "read"
    /\ lock_free(guarded)
    /\ loc' = [loc EXCEPT !.finale = guarded.data]
    /\ pc' = [pc EXCEPT !.main = "done"]
    /\ UNCHANGED <<guarded, chan, printed>>
    /\ StoreFermo

\* let mut num = contatore.lock().unwrap();
ThreadLock(i) ==
    /\ pc.t[i] = "lock"
    /\ lock_free(guarded)
    /\ guarded' = lock(guarded, i)
    /\ pc' = [pc EXCEPT !.t[i] = "load"]
    /\ UNCHANGED <<chan, loc, printed>>
    /\ StoreFermo

\* *num += 1 is a read of the counter ...
ThreadLoad(i) ==
    /\ pc.t[i] = "load"
    /\ loc' = [loc EXCEPT !.num[i] = guarded.data]
    /\ pc' = [pc EXCEPT !.t[i] = "store"]
    /\ UNCHANGED <<guarded, chan, printed>>
    /\ StoreFermo

\* ... and a write of the value read plus one
ThreadStore(i) ==
    /\ pc.t[i] = "store"
    /\ guarded' = [guarded EXCEPT !.data = loc.num[i] + 1]
    /\ pc' = [pc EXCEPT !.t[i] = "print"]
    /\ UNCHANGED <<chan, loc, printed>>
    /\ StoreFermo

\* println!(.., i, *num)
ThreadPrint(i) ==
    /\ pc.t[i] = "print"
    /\ printed' = Append(printed, guarded.data)
    /\ pc' = [pc EXCEPT !.t[i] = "unlock"]
    /\ UNCHANGED <<guarded, chan, loc>>
    /\ StoreFermo

\* the closure ends: num, the guard, is dropped
ThreadUnlock(i) ==
    /\ pc.t[i] = "unlock"
    /\ guarded' = unlock(guarded)
    /\ loc' = [loc EXCEPT !.num[i] = 0]
    /\ pc' = [pc EXCEPT !.t[i] = "done"]
    /\ UNCHANGED <<chan, printed>>
    /\ StoreFermo

ContatoreMain == ContatoreSpawn \/ ContatoreJoin \/ ContatoreRead
Thread(i) == ThreadLock(i) \/ ThreadLoad(i) \/ ThreadStore(i) \/ ThreadPrint(i) \/ ThreadUnlock(i)

NextContatore ==
    \/ ContatoreSpawn
    \/ ContatoreJoin
    \/ ContatoreRead
    \/ \E i \in Threads : ThreadLock(i)
    \/ \E i \in Threads : ThreadLoad(i)
    \/ \E i \in Threads : ThreadStore(i)
    \/ \E i \in Threads : ThreadPrint(i)
    \/ \E i \in Threads : ThreadUnlock(i)

SpecContatore ==
    /\ InitContatore
    /\ [][NextContatore]_vars
    /\ WF_vars(ContatoreMain)
    /\ \A i \in Threads : WF_vars(Thread(i))

\* ------------------------------------------- 8.5 Analisi Parallela
\* The vector at lines 174-184: (nome, peso, periodo).
reperti_analisi ==
    << [nome |-> "Ascia tipo A", peso |-> 350, periodo |-> "BF"],
       [nome |-> "Ascia tipo B", peso |-> 420, periodo |-> "BF"],
       [nome |-> "Spada corta", peso |-> 800, periodo |-> "BR"],
       [nome |-> "Fibula", peso |-> 45, periodo |-> "EF"],
       [nome |-> "Pugnale", peso |-> 280, periodo |-> "BF"],
       [nome |-> "Punta di lancia", peso |-> 150, periodo |-> "BR"],
       [nome |-> "Anello", peso |-> 15, periodo |-> "EF"],
       [nome |-> "Ascia tipo C", peso |-> 390, periodo |-> "BF"],
       [nome |-> "Falce", peso |-> 200, periodo |-> "BR"] >>
chunk_size == 3
\* reperti.chunks(chunk_size): consecutive slices, the last one shorter
\* when the length is not a multiple; indexed by thread_id from 0.
n_threads == (Len(reperti_analisi) + chunk_size - 1) \div chunk_size
Workers == 0..(n_threads - 1)
chunks(t) ==
    LET from == t * chunk_size + 1
        upto == IF from + chunk_size - 1 < Len(reperti_analisi)
                THEN from + chunk_size - 1 ELSE Len(reperti_analisi)
    IN  SubSeq(reperti_analisi, from, upto)

f64_mul(a, b) == f64_frac(a[1] * b[1], a[2] * b[2])
\* peso / 100.0 + nome.len() as f64 * 0.5
punteggio_analisi(r) ==
    f64_add(f64_div(f64_of(r.peso), f64_of(100)), f64_mul(f64_of(Len(r.nome)), f64_frac(1, 2)))
\* The message of lines 213-216, kept as the values it is formatted from.
messaggio_analisi(thread_id, r) ==
    [thread_id |-> thread_id, nome |-> r.nome, periodo |-> r.periodo,
     punteggio |-> punteggio_analisi(r)]

\* loc.t is the cursor of the spawn loop, loc.k[t] the position of worker t
\* in its chunk, loc.len the length main prints; printed counts the lines
\* main prints, one for each message received.
InitAnalisi ==
    /\ StoreIdle
    /\ pc = [main |-> "spawn", t |-> [t \in Workers |-> "unspawned"]]
    /\ chan = channel
    /\ guarded = mutex_new(EmptyMap)
    /\ loc = [t |-> 0, k |-> [t \in Workers |-> 1], len |-> 0]
    /\ printed = 0

\* One pass of the loop at lines 199-222.
AnalisiSpawn ==
    /\ pc.main = "spawn"
    /\ chan' = clone_sender(chan)
    /\ pc' = [main |-> IF loc.t = n_threads - 1 THEN "drop" ELSE "spawn",
              t |-> [pc.t EXCEPT ![loc.t] = IF chunks(loc.t) = <<>> THEN "end" ELSE "lock"]]
    /\ loc' = [loc EXCEPT !.t = @ + 1]
    /\ UNCHANGED <<guarded, printed>>
    /\ StoreFermo

\* drop(tx), line 223
AnalisiDrop ==
    /\ pc.main = "drop"
    /\ chan' = drop_sender(chan)
    /\ pc' = [pc EXCEPT !.main = "recv"]
    /\ UNCHANGED <<guarded, loc, printed>>
    /\ StoreFermo

\* for msg in rx { println!(..) }
AnalisiRecv ==
    /\ pc.main = "recv"
    /\ recv_ready(chan)
    /\ printed' = printed + 1
    /\ chan' = recv(chan)
    /\ UNCHANGED <<pc, guarded, loc>>
    /\ StoreFermo

AnalisiRecvEnd ==
    /\ pc.main = "recv"
    /\ recv_closed(chan)
    /\ chan' = drop_receiver(chan)
    /\ pc' = [pc EXCEPT !.main = "lock"]
    /\ UNCHANGED <<guarded, loc, printed>>
    /\ StoreFermo

\* risultati_globali.lock().unwrap() and risultati.len(), lines 231-232; main
\* keeps the guard
AnalisiLock ==
    /\ pc.main = "lock"
    /\ lock_free(guarded)
    /\ IF guarded.poisoned
       THEN /\ pc' = [pc EXCEPT !.main = "panicked"]
            /\ UNCHANGED <<guarded, loc>>
       ELSE /\ guarded' = lock(guarded, "main")
            /\ loc' = [loc EXCEPT !.len = len(guarded.data)]
            /\ pc' = [pc EXCEPT !.main = "done"]
    /\ UNCHANGED <<chan, printed>>
    /\ StoreFermo

\* let mut map = risultati.lock().unwrap();
WorkerLock(t) ==
    /\ pc.t[t] = "lock"
    /\ lock_free(guarded)
    /\ IF guarded.poisoned
       THEN pc' = [pc EXCEPT !.t[t] = "end"] /\ UNCHANGED guarded
       ELSE pc' = [pc EXCEPT !.t[t] = "insert"] /\ guarded' = lock(guarded, t)
    /\ UNCHANGED <<chan, loc, printed>>
    /\ StoreFermo

\* map.insert(nome.to_string(), punteggio);
WorkerInsert(t) ==
    /\ pc.t[t] = "insert"
    /\ LET r == chunks(t)[loc.k[t]]
       IN  guarded' = [guarded EXCEPT !.data = insert(@, r.nome, punteggio_analisi(r))]
    /\ pc' = [pc EXCEPT !.t[t] = "send"]
    /\ UNCHANGED <<chan, loc, printed>>
    /\ StoreFermo

\* tx.send(format!(..)).unwrap(); a failed send unwinds through the guard
WorkerSend(t) ==
    /\ pc.t[t] = "send"
    /\ IF send_ok(chan)
       THEN /\ chan' = send(chan, messaggio_analisi(t, chunks(t)[loc.k[t]]))
            /\ pc' = [pc EXCEPT !.t[t] = "sleep"]
            /\ UNCHANGED guarded
       ELSE /\ guarded' = poison(guarded)
            /\ pc' = [pc EXCEPT !.t[t] = "end"]
            /\ UNCHANGED chan
    /\ UNCHANGED <<loc, printed>>
    /\ StoreFermo

\* thread::sleep(..) and the end of the pass: map, the guard, is dropped
WorkerSleep(t) ==
    /\ pc.t[t] = "sleep"
    /\ guarded' = unlock(guarded)
    /\ IF loc.k[t] = Len(chunks(t))
       THEN pc' = [pc EXCEPT !.t[t] = "end"] /\ loc' = [loc EXCEPT !.k[t] = 1]
       ELSE pc' = [pc EXCEPT !.t[t] = "lock"] /\ loc' = [loc EXCEPT !.k[t] = @ + 1]
    /\ UNCHANGED <<chan, printed>>
    /\ StoreFermo

\* the closure ends (or unwinds): its tx is dropped
WorkerEnd(t) ==
    /\ pc.t[t] = "end"
    /\ chan' = drop_sender(chan)
    /\ pc' = [pc EXCEPT !.t[t] = "done"]
    /\ UNCHANGED <<guarded, loc, printed>>
    /\ StoreFermo

AnalisiMain == AnalisiSpawn \/ AnalisiDrop \/ AnalisiRecv \/ AnalisiRecvEnd \/ AnalisiLock
Worker(t) == WorkerLock(t) \/ WorkerInsert(t) \/ WorkerSend(t) \/ WorkerSleep(t) \/ WorkerEnd(t)

NextAnalisi ==
    \/ AnalisiSpawn
    \/ AnalisiDrop
    \/ AnalisiRecv
    \/ AnalisiRecvEnd
    \/ AnalisiLock
    \/ \E t \in Workers : WorkerLock(t)
    \/ \E t \in Workers : WorkerInsert(t)
    \/ \E t \in Workers : WorkerSend(t)
    \/ \E t \in Workers : WorkerSleep(t)
    \/ \E t \in Workers : WorkerEnd(t)

SpecAnalisi ==
    /\ InitAnalisi
    /\ [][NextAnalisi]_vars
    /\ WF_vars(AnalisiMain)
    /\ \A t \in Workers : WF_vars(Worker(t))

\* ------------------------------------- 8.7 Pattern Produttore-Consumatore
\* Strings are sequences of characters.  The vector at line 293:
dati ==
    << <<"a", "s", "c", "i", "a", "_", "0", "0", "1">>,
       <<"s", "p", "a", "d", "a", "_", "0", "0", "2">>,
       <<"f", "i", "b", "u", "l", "a", "_", "0", "0", "3">>,
       <<"p", "u", "g", "n", "a", "l", "e", "_", "0", "0", "4">> >>
\* str::to_uppercase on the characters of dati: a lower-case letter maps to
\* its upper-case letter, any other character to itself.
upper_char(c) ==
    CASE c = "a" -> "A" [] c = "b" -> "B" [] c = "c" -> "C" [] c = "d" -> "D"
      [] c = "e" -> "E" [] c = "f" -> "F" [] c = "g" -> "G" [] c = "i" -> "I"
      [] c = "l" -> "L" [] c = "n" -> "N" [] c = "p" -> "P" [] c = "s" -> "S"
      [] c = "u" -> "U"
      [] OTHER -> c
to_uppercase(s) == [i \in DOMAIN s |-> upper_char(s[i])]
\* str::replace(from, to) with a pattern of one character
RECURSIVE replace(_, _, _)
replace(s, from, to) ==
    IF s = <<>> THEN <<>>
    ELSE (IF Head(s) = from THEN to ELSE <<Head(s)>>) \o replace(Tail(s), from, to)

\* Variant of elabora: the raw item is passed on as it came.
elabora_raw(dato_grezzo) == dato_grezzo

\* format!("[ELABORATO] {} -> {}", dato_grezzo,
\*         dato_grezzo.to_uppercase().replace("_", " #"))
elabora(dato_grezzo) ==
    <<"[", "E", "L", "A", "B", "O", "R", "A", "T", "O", "]", " ">>
        \o dato_grezzo \o <<" ", "-", ">", " ">>
        \o replace(to_uppercase(dato_grezzo), "_", <<" ", "#">>)

\* chan.raw and chan.processed are the two channels; loc.i is the
\* producer's cursor in dati, loc.dato_grezzo the item the processor holds,
\* loc.processato the string it has formatted.
InitPipeline ==
    /\ StoreIdle
    /\ pc = [main |-> "spawn1", t |-> [stage1 |-> "unspawned", stage2 |-> "unspawned"]]
    /\ chan = [raw |-> channel, processed |-> channel]
    /\ loc = [i |-> 1, dato_grezzo |-> <<>>, processato |-> <<>>]
    /\ guarded = <<>>
    /\ printed = <<>>

\* thread::spawn at line 292
PipelineSpawn1 ==
    /\ pc.main = "spawn1"
    /\ pc' = [main |-> "spawn2", t |-> [pc.t EXCEPT !.stage1 = IF dati = <<>> THEN "end" ELSE "send"]]
    /\ UNCHANGED <<guarded, chan, loc, printed>>
    /\ StoreFermo

\* thread::spawn at line 300
PipelineSpawn2 ==
    /\ pc.main = "spawn2"
    /\ pc' = [main |-> "recv", t |-> [pc.t EXCEPT !.stage2 = "recv"]]
    /\ UNCHANGED <<guarded, chan, loc, printed>>
    /\ StoreFermo

\* for risultato in rx_processed { println!(..) }
Stage3Recv ==
    /\ pc.main = "recv"
    /\ recv_ready(chan.processed)
    /\ printed' = Append(printed, Head(chan.processed.queue))
    /\ chan' = [chan EXCEPT !.processed = recv(@)]
    /\ UNCHANGED <<pc, guarded, loc>>
    /\ StoreFermo

Stage3RecvEnd ==
    /\ pc.main = "recv"
    /\ recv_closed(chan.processed)
    /\ chan' = [chan EXCEPT !.processed = drop_receiver(@)]
    /\ pc' = [pc EXCEPT !.main = "done"]
    /\ UNCHANGED <<guarded, loc, printed>>
    /\ StoreFermo

\* tx_raw.send(dato.to_string()).unwrap(), one pass of the loop at line 294
Stage1Send ==
    /\ pc.t.stage1 = "send"
    /\ IF send_ok(chan.raw)
       THEN /\ chan' = [chan EXCEPT !.raw = send(@, dati[loc.i])]
            /\ loc' = [loc EXCEPT !.i = @ + 1]
            /\ pc' = [pc EXCEPT !.t.stage1 = IF loc.i = Len(dati) THEN "end" ELSE "send"]
       ELSE /\ pc' = [pc EXCEPT !.t.stage1 = "end"]
            /\ UNCHANGED <<chan, loc>>
    /\ UNCHANGED <<guarded, printed>>
    /\ StoreFermo

\* the closure ends (or unwinds): tx_raw is dropped
Stage1End ==
    /\ pc.t.stage1 = "end"
    /\ chan' = [chan EXCEPT !.raw = drop_sender(@)]
    /\ pc' = [pc EXCEPT !.t.stage1 = "done"]
    /\ UNCHANGED <<guarded, loc, printed>>
    /\ StoreFermo

\* for dato_grezzo in rx_raw
Stage2Recv ==
    /\ pc.t.stage2 = "recv"
    /\ recv_ready(chan.raw)
    /\ loc' = [loc EXCEPT !.dato_grezzo = Head(chan.raw.queue)]
    /\ chan' = [chan EXCEPT !.raw = recv(@)]
    /\ pc' = [pc EXCEPT !.t.stage2 = "format"]
    /\ UNCHANGED <<guarded, printed>>
    /\ StoreFermo

\* let processato = format!(..);
Stage2Elabora ==
    /\ pc.t.stage2 = "format"
    /\ loc' = [loc EXCEPT !.processato = elabora(loc.dato_grezzo)]
    /\ pc' = [pc EXCEPT !.t.stage2 = "send"]
    /\ UNCHANGED <<guarded, chan, printed>>
    /\ StoreFermo

\* the loop ends: rx_raw is dropped
Stage2RecvEnd ==
    /\ pc.t.stage2 = "recv"
    /\ recv_closed(chan.raw)
    /\ chan' = [chan EXCEPT !.raw = drop_receiver(@)]
    /\ pc' = [pc EXCEPT !.t.stage2 = "end"]
    /\ UNCHANGED <<guarded, loc, printed>>
    /\ StoreFermo

\* tx_processed.send(processato).unwrap(); a failed send unwinds and drops
\* rx_raw
Stage2Send ==
    /\ pc.t.stage2 = "send"
    /\ IF send_ok(chan.processed)
       THEN /\ chan' = [chan EXCEPT !.processed = send(@, loc.processato)]
            /\ pc' = [pc EXCEPT !.t.stage2 = "recv"]
       ELSE /\ chan' = [chan EXCEPT !.raw = drop_receiver(@)]
            /\ pc' = [pc EXCEPT !.t.stage2 = "end"]
    /\ loc' = [loc EXCEPT !.dato_grezzo = <<>>, !.processato = <<>>]
    /\ UNCHANGED <<guarded, printed>>
    /\ StoreFermo

\* the closure ends (or unwinds): tx_processed is dropped
Stage2End ==
    /\ pc.t.stage2 = "end"
    /\ chan' = [chan EXCEPT !.processed = drop_sender(@)]
    /\ pc' = [pc EXCEPT !.t.stage2 = "done"]
    /\ UNCHANGED <<guarded, loc, printed>>
    /\ StoreFermo

PipelineMain == PipelineSpawn1 \/ PipelineSpawn2 \/ Stage3Recv \/ Stage3RecvEnd
Stage1 == Stage1Send \/ Stage1End
Stage2 == Stage2Recv \/ Stage2Elabora \/ Stage2RecvEnd \/ Stage2Send \/ Stage2End

NextPipeline ==
    \/ PipelineSpawn1
    \/ PipelineSpawn2
    \/ Stage3Recv
    \/ Stage3RecvEnd
    \/ Stage1Send
    \/ Stage1End
    \/ Stage2Recv
    \/ Stage2Elabora
    \/ Stage2RecvEnd
    \/ Stage2Send
    \/ Stage2End

SpecPipeline ==
    /\ InitPipeline
    /\ [][NextPipeline]_vars
    /\ WF_vars(PipelineMain)
    /\ WF_vars(Stage1)
    /\ WF_vars(Stage2)

\* ------------------------------------------------------------------- claims
\* Identifiers issued and not removed since.
Held == {issued[i] : i \in DOMAIN issued} \ removed

\* A name that is empty or made of whitespace only.
Blank(nome) == \A i \in DOMAIN nome : nome[i] \in WhiteSpace

\* C1: every successful aggiungi returns an identifier strictly greater than
\* every identifier returned by an earlier successful aggiungi, removals in
\* between included.
C1_IdsStrictlyIncrease ==
    \A i, j \in DOMAIN issued : i < j => issued[i] < issued[j]

\* C1 witness: a second identifier was issued after the first was removed.
C1_Witness ==
    /\ Len(issued) >= 2
    /\ issued[1] \in removed
    /\ last.op = "aggiungi" /\ last.res.ok
    /\ last.res.val = issued[Len(issued)]

\* C2: aggiungi of a record whose name is empty or whitespace-only fails with
\* NomeVuoto and leaves the map, totale() and prossimo_id as they were.
C2_BlankNameRejectedUnchanged ==
    [][(last'.op = "aggiungi" /\ Blank(last'.arg.nome))
        => /\ last'.res = Err(NomeVuoto)
           /\ reperti' = reperti
           /\ totale' = totale
           /\ prossimo_id' = prossimo_id]_vars

\* C2 witness: a whitespace-only name was rejected by a store that holds artifacts.
C2_Witness ==
    /\ last.op = "aggiungi"
    /\ last.arg.nome = <<" ", "\t">>
    /\ last.res = Err(NomeVuoto)
    /\ totale >= 1

\* C3: an identifier removed by a successful rimuovi is absent ever after:
\* cerca_per_id fails on it with RepertoNonTrovato(id), and no aggiungi has
\* returned it a second time.
C3_RemovedNeverBack ==
    \A id \in removed :
        /\ cerca_per_id(id) = Err(RepertoNonTrovato(id))
        /\ Cardinality({i \in DOMAIN issued : issued[i] = id}) = 1

\* C3 witness: cerca_per_id failed on a removed identifier after a later
\* identifier had been issued.
C3_Witness ==
    /\ last.op = "cerca_per_id"
    /\ last.arg \in removed
    /\ ~last.res.ok
    /\ Len(issued) >= 2 /\ issued[Len(issued)] > last.arg
    /\ issued[Len(issued)] \in DOMAIN reperti


\* C4: cerca_per_id called with the identifier an aggiungi has just returned
\* succeeds and yields the inserted record with the assigned identifier in
\* its id field; the id the caller wrote into the record is ignored.
C4_LookupAfterInsert ==
    /\ (last.op = "aggiungi" /\ ~Blank(last.arg.nome))
        => last.res.ok /\ cerca_per_id(last.res.val).ok
    /\ (last.op = "cerca_per_id" /\ last.ctx # None)
        => LET given == last.ctx[1] IN
           /\ last.res.ok
           /\ last.res.val.id = last.arg
           /\ last.res.val = [given EXCEPT !.id = last.arg]

\* C4 witness: the looked-up record was inserted with another id in its id field.
C4_Witness ==
    /\ last.op = "cerca_per_id" /\ last.ctx # None
    /\ last.res.ok
    /\ last.ctx[1].id # last.arg
    /\ last.res.val.nome = last.ctx[1].nome

\* C5: prossimo_id starts at 1 and is one more than the number of successful
\* aggiungi calls, whatever else was called: the k-th successful aggiungi
\* returned k.
C5_CounterCountsInserts ==
    /\ prossimo_id = Len(issued) + 1
    /\ \A k \in DOMAIN issued : issued[k] = k

\* C5 witness: the second successful aggiungi returned 2 after a removal, and
\* a failed call followed.
C5_Witness ==
    /\ issued = <<1, 2>>
    /\ removed # {}
    /\ last.op \in {"aggiungi", "rimuovi", "aggiungi_nota"} /\ ~last.res.ok
    /\ prossimo_id = 3

\* C6: rimuovi of a held identifier takes out exactly that entry, returns it
\* as it was stored (notes appended so far included) and lowers totale() by
\* one; rimuovi of an identifier not held fails with RepertoNonTrovato(id)
\* and leaves the map and prossimo_id unchanged.
C6_RemoveExactlyOne ==
    [][last'.op = "rimuovi"
        => LET id == last'.arg IN
           IF id \in DOMAIN reperti
           THEN /\ last'.res = Ok(reperti[id])
                /\ DOMAIN reperti' = (DOMAIN reperti) \ {id}
                /\ \A k \in DOMAIN reperti' : reperti'[k] = reperti[k]
                /\ totale' = totale - 1
                /\ prossimo_id' = prossimo_id
           ELSE /\ last'.res = Err(RepertoNonTrovato(id))
                /\ reperti' = reperti
                /\ prossimo_id' = prossimo_id]_vars

\* C6 witness: the removed artifact came back with a note appended after its
\* insertion, and another artifact stayed.
C6_Witness ==
    /\ last.op = "rimuovi" /\ last.res.ok
    /\ \E i \in DOMAIN last.res.val.note : last.res.val.note[i] \in NoteTexts
    /\ last.arg \notin DOMAIN reperti
    /\ totale >= 1

\* C7: cerca_per_id(id) succeeds exactly when id was issued and not removed
\* since; otherwise it fails with RepertoNonTrovato carrying the requested id
\* (0 and identifiers not yet issued included).
C7_LookupIffHeld ==
    last.op = "cerca_per_id"
        => IF last.arg \in Held
           THEN last.res.ok /\ last.res.val.id = last.arg
           ELSE last.res = Err(RepertoNonTrovato(last.arg))

\* C7 witness: a lookup of an identifier not yet issued failed in a store
\* that holds an artifact and has removed one.
C7_Witness ==
    /\ last.op = "cerca_per_id"
    /\ last.arg >= prossimo_id
    /\ last.res = Err(RepertoNonTrovato(last.arg))
    /\ totale >= 1 /\ removed # {}

\* C8: the note list of a held artifact is the list it was inserted with
\* followed by the texts of its successful aggiungi_nota calls, in call order.
C8_NotesAppendOnly ==
    \A id \in DOMAIN reperti :
        (id \in DOMAIN inserted /\ id \in DOMAIN appended)
            => reperti[id].note = inserted[id].note \o appended[id]

\* C8 witness: two different texts were appended to an artifact inserted with
\* a note.
C8_Witness ==
    \E id \in DOMAIN reperti :
        /\ Len(appended[id]) = 2
        /\ appended[id][1] # appended[id][2]
        /\ Len(inserted[id].note) > 0
        /\ Len(reperti[id].note) = 3

\* C9: aggiungi_nota on an identifier not held fails with
\* RepertoNonTrovato(id) and changes neither the map nor totale() nor
\* prossimo_id.
C9_NoteOnAbsentIdRejected ==
    [][(last'.op = "aggiungi_nota" /\ last'.arg[1] \notin DOMAIN reperti)
        => /\ last'.res = Err(RepertoNonTrovato(last'.arg[1]))
           /\ reperti' = reperti
           /\ totale' = totale
           /\ prossimo_id' = prossimo_id]_vars

\* C9 witness: aggiungi_nota failed on a removed identifier while another
\* artifact was held.
C9_Witness ==
    /\ last.op = "aggiungi_nota"
    /\ last.arg[1] \in removed
    /\ last.res = Err(RepertoNonTrovato(last.arg[1]))
    /\ totale >= 1

\* C10: tutti returns every held artifact exactly once and nothing else, in
\* strictly ascending identifier order, whatever order the map iterates in.
C10_ListAllSorted ==
    last.op = "tutti"
        => LET v == last.res IN
           /\ Len(v) = totale
           /\ {v[i] : i \in DOMAIN v} = {reperti[k] : k \in DOMAIN reperti}
           /\ \A i, j \in DOMAIN v : i < j => v[i].id < v[j].id

\* C10 witness: the map iterated in descending identifier order.
C10_Witness ==
    /\ last.op = "tutti"
    /\ Len(last.ctx) >= 2
    /\ last.ctx[1] > last.ctx[2]
    /\ Len(last.res) = Len(last.ctx)

\* C11: totale() equals the number of successful aggiungi calls minus the
\* number of successful rimuovi calls (each identifier is removed at most
\* once), whatever failed calls, note appends and lookups came between.
C11_CountIsInsertsMinusRemoves ==
    /\ totale = Len(issued) - Cardinality(removed)
    /\ last.op = "totale" => last.res = Len(issued) - Cardinality(removed)

\* C11 witness: totale returned 1 after two insertions and one removal.
C11_Witness ==
    /\ last.op = "totale" /\ last.res = 1
    /\ Len(issued) = 2 /\ Cardinality(removed) = 1

\* The records currently held.
HeldRecords == {reperti[k] : k \in DOMAIN reperti}

\* The elements of a sequence.
Elems(v) == {v[i] : i \in DOMAIN v}

\* n occurs in h as a contiguous run of characters.
IsSubstring(n, h) ==
    \E i \in 1..(Len(h) + 1) :
        /\ i + Len(n) - 1 <= Len(h)
        /\ \A k \in 1..Len(n) : h[i + k - 1] = n[k]

\* The held records whose name, lower-cased, has q lower-cased as a substring.
NameMatches(q) == {r \in HeldRecords : IsSubstring(to_lowercase(q), to_lowercase(r.nome))}

\* C12: cerca_per_nome(q) returns exactly the held artifacts whose name,
\* lower-cased, contains q lower-cased as a contiguous substring, each once;
\* when nothing matches the result is the empty Vec.
C12_FindByNameExact ==
    last.op = "cerca_per_nome"
        => /\ Elems(last.res) = NameMatches(last.arg)
           /\ Len(last.res) = Cardinality(NameMatches(last.arg))
           /\ NameMatches(last.arg) = {} => last.res = <<>>

\* C12 witness: an upper-case query matched two held artifacts, one of them
\* through a letter of the other case, and left none out.
C12_Witness ==
    /\ last.op = "cerca_per_nome"
    /\ last.arg = <<"A", "X">>
    /\ Len(last.res) = 2
    /\ \E i \in DOMAIN last.res : last.res[i].nome = <<"a", "x", "e", "-", "h", "e", "a", "d">>

\* C13: cerca_per_nome with the empty string returns every held artifact:
\* the same artifacts as tutti() and as many as totale().
C13_EmptyQueryReturnsAll ==
    (last.op = "cerca_per_nome" /\ last.arg = <<>>)
        => /\ Elems(last.res) = HeldRecords
           /\ Len(last.res) = totale
           /\ \A order \in values(reperti) : Elems(tutti(order)) = Elems(last.res)

\* C13 witness: the empty query returned both artifacts of a store of two.
C13_Witness ==
    /\ last.op = "cerca_per_nome" /\ last.arg = <<>>
    /\ Len(last.res) = 2 /\ totale = 2

\* Equality of two Materiale values: the same variant and, for Altro, the
\* same label.
SameMaterial(a, b) ==
    /\ a.tag = b.tag
    /\ a.tag = "Altro" => a.label = b.label

\* C14: cerca_per_materiale, cerca_per_periodo and cerca_per_sito return
\* exactly the held artifacts that satisfy their predicate, each once:
\* equality of the enumerated value (for Altro, of the label too), and for
\* the site a case-insensitive substring match.
C14_FindByAttributeExact ==
    /\ last.op = "cerca_per_materiale"
        => LET want == {r \in HeldRecords : SameMaterial(r.materiale, last.arg)} IN
           Elems(last.res) = want /\ Len(last.res) = Cardinality(want)
    /\ last.op = "cerca_per_periodo"
        => LET want == {r \in HeldRecords : r.periodo = last.arg} IN
           Elems(last.res) = want /\ Len(last.res) = Cardinality(want)
    /\ last.op = "cerca_per_sito"
        => LET want == {r \in HeldRecords :
                          IsSubstring(to_lowercase(last.arg), to_lowercase(r.sito))} IN
           Elems(last.res) = want /\ Len(last.res) = Cardinality(want)

\* C14 witness: a search for Altro("y") found nothing in a store that holds
\* an Altro("x") artifact.
C14_Witness ==
    /\ last.op = "cerca_per_materiale"
    /\ last.arg = [tag |-> "Altro", label |-> "y"]
    /\ last.res = <<>>
    /\ \E r \in HeldRecords : r.materiale.tag = "Altro"

\* C15: after every step, each artifact is stored under the identifier its
\* id field holds, no two held artifacts have the same identifier, and an
\* artifact held before and after the step has the identifier it had.
C15_IdIsKeyAndImmutable ==
    [][/\ \A k \in DOMAIN reperti' : reperti'[k].id = k
       /\ \A j, k \in DOMAIN reperti' : reperti'[j].id = reperti'[k].id => j = k
       /\ \A k \in (DOMAIN reperti) \cap (DOMAIN reperti') :
             reperti'[k].id = reperti[k].id]_vars

\* C15 witness: two artifacts are held, the caller of one had written another
\* identifier into it, and a note was appended to one.
C15_Witness ==
    /\ totale = 2
    /\ \E k \in DOMAIN reperti : inserted[k].id # k /\ inserted[k].id # 0
    /\ \E k \in DOMAIN reperti : Len(appended[k]) > 0
    /\ \A k \in DOMAIN reperti : reperti[k].id = k

\* C16: a step changes a held artifact only when it is a successful
\* aggiungi_nota on that artifact's identifier, and then only its note list,
\* by one text at the end; every other step, and every other artifact, keeps
\* every field.
C16_OnlyAppendNoteMutates ==
    [][\A k \in (DOMAIN reperti) \cap (DOMAIN reperti') :
          IF last'.op = "aggiungi_nota" /\ last'.res.ok /\ last'.arg[1] = k
          THEN reperti'[k] = [reperti[k] EXCEPT !.note = Append(@, last'.arg[2])]
          ELSE reperti'[k] = reperti[k]]_vars

\* C16 witness: a note was appended to one of two held artifacts and the
\* other still is the record it was inserted as.
C16_Witness ==
    /\ last.op = "aggiungi_nota" /\ last.res.ok
    /\ totale = 2
    /\ \E k \in DOMAIN reperti :
          k # last.arg[1] /\ reperti[k] = [inserted[k] EXCEPT !.id = k]

\* ------------------------------------------------------- claims C17 .. C19
\* The positions of a slice, the positions whose artifact has a weight, and
\* sums over positions, counted apart from the loop of genera_report.
RECURSIVE SumOver(_, _)
SumOver(S, f) ==
    IF S = {} THEN 0
    ELSE LET i == CHOOSE j \in S : TRUE IN f[i] + SumOver(S \ {i}, f)
Weighed(slice) == {i \in DOMAIN slice : slice[i].misurazioni.peso_grammi # None}
WeightOf(r) == r.misurazioni.peso_grammi[1]
ScoreOf(r) ==
    CASE r.conservazione = "Integro" -> 5 [] r.conservazione = "Buono" -> 4
      [] r.conservazione = "Discreto" -> 3 [] r.conservazione = "Frammentario" -> 2
      [] r.conservazione = "Pessimo" -> 1
RECURSIVE SumCounts(_)
SumCounts(m) ==
    IF DOMAIN m = {} THEN 0
    ELSE LET k == CHOOSE j \in DOMAIN m : TRUE
         IN m[k] + SumCounts([j \in (DOMAIN m) \ {k} |-> m[j]])
\* A grouping `m` of `slice` by `label`: one entry per label carried, holding
\* the number of positions carrying it, and the entries add up to the length.
CountsBy(m, slice, label(_)) ==
    /\ DOMAIN m = {label(slice[i]) : i \in DOMAIN slice}
    /\ \A l \in DOMAIN m : m[l] = Cardinality({i \in DOMAIN slice : label(slice[i]) = l})
    /\ SumCounts(m) = Len(slice)
MaterialLabel(r) == fmt_materiale(r.materiale)
PeriodLabel(r) == fmt_periodo(r.periodo)
SiteLabel(r) == r.sito
ConditionLabel(r) == fmt_conservazione(r.conservazione)

\* C17: the average weight of a report is absent when no artifact of the input
\* has a weight; otherwise it is the sum of the present weights divided by the
\* number of artifacts that have one (artifacts without a weight are left out
\* of both).
C17_AverageWeight ==
    last.op = "genera_report" =>
        LET slice == last.arg
            W == Weighed(slice)
            avg == last.res.peso_medio
        IN IF W = {} THEN avg = None
           ELSE /\ avg # None
                /\ avg[1][2] > 0
                /\ avg[1][1] * Cardinality(W) = SumOver(W, [i \in W |-> WeightOf(slice[i])]) * avg[1][2]
C17_Witness ==
    /\ last.op = "genera_report"
    /\ Len(last.arg) = 3
    /\ Cardinality(Weighed(last.arg)) = 2
    /\ last.res.peso_medio = Some(<<200, 1>>)

\* C18: the average condition score of a report is the sum of the artifacts'
\* scores divided by the number of artifacts, and zero for an empty input.
C18_AverageConditionScore ==
    last.op = "genera_report" =>
        LET slice == last.arg
            avg == last.res.punteggio_conservazione_medio
        IN IF Len(slice) = 0 THEN avg = <<0, 1>>
           ELSE /\ avg[2] > 0
                /\ avg[1] * Len(slice) = SumOver(DOMAIN slice, [i \in DOMAIN slice |-> ScoreOf(slice[i])]) * avg[2]
C18_Witness ==
    /\ last.op = "genera_report"
    /\ Len(last.arg) = 3
    /\ last.res.punteggio_conservazione_medio = <<10, 3>>

\* C19: in each of the four groupings of a report (material, period, site,
\* condition) the count under a label is the number of input artifacts that
\* carry the label, a label carried by none does not appear, and the counts
\* add up to the total number of artifacts.
C19_GroupingCounts ==
    last.op = "genera_report" =>
        LET slice == last.arg
            report == last.res
        IN /\ report.totale_reperti = Len(slice)
           /\ CountsBy(report.per_materiale, slice, MaterialLabel)
           /\ CountsBy(report.per_periodo, slice, PeriodLabel)
           /\ CountsBy(report.per_sito, slice, SiteLabel)
           /\ CountsBy(report.per_conservazione, slice, ConditionLabel)
C19_Witness ==
    /\ last.op = "genera_report"
    /\ Len(last.arg) = 3
    /\ \E l \in DOMAIN last.res.per_sito : last.res.per_sito[l] = 2
    /\ Cardinality(DOMAIN last.res.per_materiale) = 2
    /\ <<"Altro: ", "y">> \in DOMAIN last.res.per_materiale
    /\ <<"Altro: ", "x">> \notin DOMAIN last.res.per_materiale

\* --------------------------------------------------------------- claim C20
\* The ids given to Esempio's artifacts, and the store holding all three.
IdOf(i) == issued[i]
AllThreeHeld == Len(issued) = Len(Esempio) /\ removed = {}
Stored(i) == [Esempio[i] EXCEPT !.id = IdOf(i)]

\* C20: on a new store, insert A ("Axe", 350), B ("Sword", no weight) and
\* C ("axe-head", 50) in this order.  Then the count is 3, the search by name
\* for "axe" returns exactly A and C, the average weight over the three is
\* 200, and once B's id has been removed the lookup of B's id fails with
\* not-found.
C20_Example ==
    /\ (AllThreeHeld /\ last.op = "totale") => last.res = 3
    /\ (AllThreeHeld /\ last.op = "cerca_per_nome" /\ last.arg = <<"a", "x", "e">>)
          => /\ Elems(last.res) = {Stored(1), Stored(3)}
             /\ Len(last.res) = 2
    /\ (AllThreeHeld /\ last.op = "genera_report")
          => /\ Elems(last.arg) = {Stored(1), Stored(2), Stored(3)}
             /\ last.res.peso_medio = Some(<<200, 1>>)
    /\ (Len(issued) = Len(Esempio) /\ IdOf(2) \in removed
          /\ last.op = "cerca_per_id" /\ last.arg = IdOf(2))
          => last.res = Err(RepertoNonTrovato(IdOf(2)))
C20_Witness ==
    /\ issued = <<1, 2, 3>>
    /\ removed = {2}
    /\ last.op = "cerca_per_id"
    /\ last.arg = 2
    /\ ~last.res.ok
    /\ DOMAIN reperti = {1, 3}

\* ------------------------------------------------------- claims C21 .. C23
\* Reading an exported object back: the value under a key, and the Reperto
\* the object spells.
Field(obj, k) == LET i == CHOOSE j \in DOMAIN obj.v : obj.v[j][1] = k IN obj.v[i][2]
ReadOption(j) == IF j.t = "null" THEN None ELSE Some(j.v)
ReadMateriale(j) ==
    IF j.t = "str" THEN [tag |-> j.v] ELSE [tag |-> j.v[1][1], label |-> j.v[1][2].v]
ReadCoordinate(j) ==
    IF j.t = "null" THEN None
    ELSE Some(<<Field(j, "latitudine").v, Field(j, "longitudine").v>>)
ReadMisurazioni(j) ==
    [lunghezza_cm |-> ReadOption(Field(j, "lunghezza_cm")),
     larghezza_cm |-> ReadOption(Field(j, "larghezza_cm")),
     altezza_cm |-> ReadOption(Field(j, "altezza_cm")),
     peso_grammi |-> ReadOption(Field(j, "peso_grammi"))]
ReadReperto(j) ==
    [id |-> Field(j, "id").v,
     nome |-> Field(j, "nome").v,
     descrizione |-> Field(j, "descrizione").v,
     materiale |-> ReadMateriale(Field(j, "materiale")),
     periodo |-> Field(j, "periodo").v,
     conservazione |-> Field(j, "conservazione").v,
     sito |-> Field(j, "sito").v,
     coordinate |-> ReadCoordinate(Field(j, "coordinate")),
     misurazioni |-> ReadMisurazioni(Field(j, "misurazioni")),
     note |-> LET a == Field(j, "note").v IN [i \in DOMAIN a |-> a[i].v]]
ExportKeys ==
    <<"id", "nome", "descrizione", "materiale", "periodo", "conservazione", "sito",
      "coordinate", "misurazioni", "note">>

\* C21: a successful export is an array with one object per artifact held at
\* the call, in ascending identifier order, each spelling the artifact field
\* for field with every note appended before the call; removed artifacts are
\* not in it.  It is the sequence tutti returns at that moment.
C21_ExportIsListAll ==
    (last.op = "to_json" /\ last.res.ok) =>
        LET arr == last.res.val IN
        /\ arr.t = "arr"
        /\ Len(arr.v) = Cardinality(Held)
        /\ \A i \in DOMAIN arr.v :
              /\ arr.v[i].t = "obj"
              /\ [n \in DOMAIN arr.v[i].v |-> arr.v[i].v[n][1]] = ExportKeys
              /\ ReadReperto(arr.v[i]).id \in Held
              /\ ReadReperto(arr.v[i]) = reperti[ReadReperto(arr.v[i]).id]
              /\ ReadReperto(arr.v[i]).note =
                    inserted[ReadReperto(arr.v[i]).id].note \o appended[ReadReperto(arr.v[i]).id]
        /\ \A i, j \in DOMAIN arr.v : i < j => ReadReperto(arr.v[i]).id < ReadReperto(arr.v[j]).id
        /\ [i \in DOMAIN arr.v |-> ReadReperto(arr.v[i])] = tutti(ordine)
C21_Witness ==
    /\ last.op = "to_json"
    /\ last.res.ok
    /\ Len(last.res.val.v) = 2
    /\ ordine = <<2, 1>>
    /\ \E k \in Held : appended[k] # <<>>

\* C22: when the encoder fails, to_json hands the failure to its caller as
\* ErroreInventario::SerializzazioneErrore; and to_json fails in no other case.
C22_EncoderFailureIsSerializzazioneErrore ==
    last.op = "to_json" =>
        /\ (encoder = "err" => last.res = Err(from_serde_json_error(SerdeJsonError)))
        /\ (encoder = "ok" => last.res.ok)

\* The methods that return a Result, and the error each may return according
\* to the error taxonomy.  The searches, tutti and totale return a plain value.
FailsOnlyWith(op, arg, err) ==
    CASE op \in {"cerca_per_id", "rimuovi"} -> err = RepertoNonTrovato(arg)
      [] op = "aggiungi_nota" -> err = RepertoNonTrovato(arg[1])
      [] op = "aggiungi" -> err = NomeVuoto
      [] op = "to_json" -> err.tag = "SerializzazioneErrore"
ResultOps == {"cerca_per_id", "rimuovi", "aggiungi_nota", "aggiungi", "to_json"}

\* C23: every operation of the store ends with a successful result or with
\* one of three errors: RepertoNonTrovato(id) (only from cerca_per_id, rimuovi,
\* aggiungi_nota), NomeVuoto (only from aggiungi), SerializzazioneErrore (only
\* from to_json); no operation ends with another error.
C23_ThreeErrorConditions ==
    (last.op \in ResultOps /\ ~last.res.ok) => FailsOnlyWith(last.op, last.arg, last.res.err)

\* ---------------------------------------------------------------- claim C24
IdsBelowCounter == \A k \in DOMAIN reperti : 1 <= k /\ k < prossimo_id

\* C24: in every reachable state every identifier in the map is at least 1
\* and smaller than prossimo_id; so a successful aggiungi adds an entry under
\* a key the map did not hold and leaves the artifacts already held as they
\* were.
C24_IdsBelowCounterNoOverwrite ==
    [][/\ IdsBelowCounter
       /\ IdsBelowCounter'
       /\ (last'.op = "aggiungi" /\ last'.res.ok) =>
             /\ last'.res.val \notin DOMAIN reperti
             /\ DOMAIN reperti' = (DOMAIN reperti) \cup {last'.res.val}
             /\ \A k \in DOMAIN reperti : reperti'[k] = reperti[k]]_vars
C24_Witness ==
    /\ last.op = "aggiungi"
    /\ last.res.ok
    /\ last.res.val = 2
    /\ DOMAIN reperti = {2}
    /\ removed = {1}
    /\ prossimo_id = 3

\* ---------------------------------------------------------------- claim C26
\* C26: once an aggiungi has succeeded with the counter at its maximum
\* 2^IdBits - 1, no later aggiungi returns an identifier that was assigned
\* before: the identifiers returned so far are all different.
C26_NoReuseAfterMaximum ==
    (\E i \in DOMAIN issued : issued[i] = IdMax) =>
        \A i, j \in DOMAIN issued : i # j => issued[i] # issued[j]

\* ---------------------------------------------------------------- claim C25
ReadOps ==
    {"cerca_per_id", "cerca_per_nome", "cerca_per_materiale", "cerca_per_periodo",
     "cerca_per_sito", "tutti", "totale", "to_json", "genera_report"}

C30_LoopEnded ==
    pc.main = "done" =>
        /\ chan.senders = 0
        /\ \A i \in Produttori : pc.t[i] = "done"
        /\ Len(printed) = NProduttori
        /\ \A i \in Produttori : \E n \in DOMAIN printed : printed[n] = <<"Reperto dal sito #", i>>
C30_ConsumerEndsWhenAllSendersDropped ==
    /\ []C30_LoopEnded
    /\ <>(pc.main = "done")
C30_Witness ==
    /\ pc.main = "done"
    /\ printed[1] = <<"Reperto dal sito #", 3>>
    /\ printed[3] = <<"Reperto dal sito #", 1>>

\* ---------------------------------------------------------------- claim C27
\* C27: in the shared-counter demo no increment is lost: the values the
\* threads observe inside the critical section are 1, 2, ... each once, up to
\* 10, and the value main reads after joining all threads is 10.
C27_NoIncrementLost ==
    /\ printed = [n \in 1..Len(printed) |-> n]
    /\ Len(printed) <= 10
    /\ \A i \in Threads : pc.t[i] \in {"print", "unlock"} => guarded.data = Len(printed) + (IF pc.t[i] = "print" THEN 1 ELSE 0)
    /\ pc.main \in {"read", "done"} => Len(printed) = 10 /\ guarded.data = 10
    /\ pc.main = "done" => loc.finale = 10
C27_Witness ==
    /\ pc.main = "done"
    /\ loc.finale = 10
    /\ Len(printed) = 10

\* ---------------------------------------------------------------- claim C28
\* C28: in the parallel-analysis demo main's receive loop ends, after exactly
\* 9 messages; no thread is stuck or panics although each worker sends while
\* it holds the map's lock; and the map main then locks has one entry for
\* each of the 9 artifacts.  Termination is stated as: until main is done
\* some thread can take a step, and every step advances the demo (the sum
\* of the threads' positions and of the lines printed grows), so that under
\* the fairness of SpecAnalisi main is done after at most
\* AnalisiRankMax steps.
AnalisiMainRank ==
    CASE pc.main = "spawn" -> loc.t
      [] pc.main = "drop" -> 3
      [] pc.main = "recv" -> 4
      [] pc.main = "lock" -> 5
      [] OTHER -> 6
AnalisiWorkerRank(t) ==
    CASE pc.t[t] = "unspawned" -> 0
      [] pc.t[t] = "lock" -> 4 * loc.k[t] - 3
      [] pc.t[t] = "insert" -> 4 * loc.k[t] - 2
      [] pc.t[t] = "send" -> 4 * loc.k[t] - 1
      [] pc.t[t] = "sleep" -> 4 * loc.k[t]
      [] pc.t[t] = "end" -> 13
      [] OTHER -> 14
AnalisiRank ==
    AnalisiMainRank + AnalisiWorkerRank(0) + AnalisiWorkerRank(1) + AnalisiWorkerRank(2) + printed
AnalisiRankMax == 6 + 3 * 14 + 9
NomiAnalisi ==
    {"Ascia tipo A", "Ascia tipo B", "Spada corta", "Fibula", "Pugnale",
     "Punta di lancia", "Anello", "Ascia tipo C", "Falce"}
C28_LoopEnded ==
    /\ pc.main # "panicked"
    /\ pc.main \in {"lock", "done"} =>
        /\ printed = 9
        /\ chan.queue = <<>>
        /\ \A t \in Workers : pc.t[t] = "done"
        /\ DOMAIN guarded.data = NomiAnalisi
        /\ ~guarded.poisoned
    /\ pc.main = "lock" => lock_free(guarded)
    /\ pc.main = "done" => loc.len = 9
C28_AnalisiTerminates ==
    /\ []C28_LoopEnded
    /\ [](pc.main # "done" => ((ENABLED AnalisiMain) \/ \E t \in Workers : ENABLED Worker(t)))
    /\ [](AnalisiRank <= AnalisiRankMax)
    /\ [][AnalisiRank' > AnalisiRank]_vars
C28_Witness ==
    /\ pc.main = "done"
    /\ loc.len = 9
    /\ printed = 9

\* ---------------------------------------------------------------- claim C29
\* C29: in the pipeline demo each of the 4 raw items reaches main exactly
\* once, in its processed form and in the order the producer sent them, and
\* main's loop ends: the processor's loop ends when the producer has dropped
\* its sender, main's when the processor has dropped its own.
Elaborati ==
    << <<"[", "E", "L", "A", "B", "O", "R", "A", "T", "O", "]", " ", "a", "s", "c", "i", "a", "_", "0", "0", "1", " ", "-", ">", " ", "A", "S", "C", "I", "A", " ", "#", "0", "0", "1">>,
       <<"[", "E", "L", "A", "B", "O", "R", "A", "T", "O", "]", " ", "s", "p", "a", "d", "a", "_", "0", "0", "2", " ", "-", ">", " ", "S", "P", "A", "D", "A", " ", "#", "0", "0", "2">>,
       <<"[", "E", "L", "A", "B", "O", "R", "A", "T", "O", "]", " ", "f", "i", "b", "u", "l", "a", "_", "0", "0", "3", " ", "-", ">", " ", "F", "I", "B", "U", "L", "A", " ", "#", "0", "0", "3">>,
       <<"[", "E", "L", "A", "B", "O", "R", "A", "T", "O", "]", " ", "p", "u", "g", "n", "a", "l", "e", "_", "0", "0", "4", " ", "-", ">", " ", "P", "U", "G", "N", "A", "L", "E", " ", "#", "0", "0", "4">> >>
C29_InOrder ==
    /\ Len(printed) <= 4
    /\ printed = SubSeq(Elaborati, 1, Len(printed))
    /\ pc.t.stage2 \in {"end", "done"} => chan.raw.senders = 0 /\ pc.t.stage1 = "done"
    /\ pc.main = "done" =>
        /\ printed = Elaborati
        /\ chan.processed.senders = 0
        /\ pc.t.stage2 = "done"
C29_PipelineDelivers ==
    /\ []C29_InOrder
    /\ <>(pc.main = "done")
C29_Witness ==
    /\ pc.main = "done"
    /\ Len(printed) = 4
    /\ printed[4] = Elaborati[4]
====
